---- MODULE Spec2Model ----
\* Model of the bender job executor (job.go), the cache garbage collector
\* (cache.go) and the shared on-disk cache layout they both work on.
EXTENDS Naturals, Integers, Sequences, FiniteSets, TLC

\* ---------------------------------------------------------------------------
\* Bounds and input sets
\* ---------------------------------------------------------------------------

\* Job ids (makeJobID: random hex strings); "a1" and "b2" stand for two ids.
Jobs == {"a1", "b2"}

\* Largest cache content value a payload can leave in its cache (0 = empty).
MaxData == 2

\* Cache tags of one cache/<owner>/<repo>/<job-name>/ directory.
Tags == {"pr-1", "branch-b", "branch-main"}

\* os.ReadDir returns entries sorted by file name.
TagRank(t) == CASE t = "branch-b" -> 1 [] t = "branch-main" -> 2 [] OTHER -> 3

\* Event.Cache lists built by the webhook handler for a push to main, a push
\* to branch b and pull request 1 targeting b.
CacheLists ==
    { <<"branch-main", "branch-main">>,
      <<"branch-b", "branch-main">>,
      <<"pr-1", "branch-b", "branch-main">> }

\* The permission keys getRepoToken accepts (the cases of its switch).
AcceptedKeys ==
    { "actions", "checks", "contents", "deployments", "issues", "packages",
      "pages", "pull_requests", "repository_projects", "security_events",
      "statuses" }

\* Fields of github.InstallationPermissions the model tracks.
PermFields == AcceptedKeys \cup {"metadata"}

\* Permission maps a job's metadata may declare (Job.Permissions).
NoPermissions == [k \in {} |-> "read"]

PermissionInputs ==
    { NoPermissions,
      [k \in {"contents"} |-> "write"],
      [k \in {"issues"} |-> "read"],
      [k \in {"issues"} |-> "admin"],
      [k \in {"metadata"} |-> "write"],
      [k \in {"bogus"} |-> "read"],
      [k \in {"contents", "bogus"} |-> "write"] }

\* Job.PermissionRepos values.
PermissionRepoInputs == { <<>>, <<"other-repo">> }

\* What the payload script of a job does while the task runs: the value it
\* leaves in /ci/cache (0 = empties it), the kind of /ci/comment.md it leaves,
\* and its exit code.
CommentKinds == {"none", "file", "symlink", "dir"}

\* write = -1 leaves the cache untouched.
Scripts ==
    [ write : (-1)..MaxData, comment : CommentKinds, exit : {0, 1} ]

\* Number of garbage-collector ticks that find free space low.
MaxGCTicks == 1

\* Config.Cache.MinFreeSpaceMB, and the free space a tick may measure.
MinFreeSpaceMB == 2

FreeSpaceInputs == (MinFreeSpaceMB - 1)..(MinFreeSpaceMB + 1)

\* ---------------------------------------------------------------------------
\* Subvolumes
\* ---------------------------------------------------------------------------

\* A btrfs subvolume: the run that created it ("old" = before the model
\* starts), its contents (0 = empty directory) and its modification time.
NoVol == [run |-> "none", data |-> 0, mtime |-> 0]

Vol(r, d, t) == [run |-> r, data |-> d, mtime |-> t]

Exists(v) == v.run # "none"

\* ---------------------------------------------------------------------------
\* State
\* ---------------------------------------------------------------------------

VARIABLES
    config,         \* Service.config (static)
    job,            \* the Job struct handed to each runJob (static)
    faults,         \* the kinds of call the environment may fail (static)
    run,            \* locals of each runJob / runJobInner goroutine
    runningJobs,    \* Service.runningJobs
    logs,           \* logs/<job>: whether it exists and its lines
    trace,          \* calls each job has made so far, in order
    commits,        \* commits finished so far, in order, with their outcome
    cache,          \* cache/<owner>/<repo>/<job-name>/<tag>
    jobCache,       \* jobs/<job>/cache
    jobFiles,       \* jobs/<job>/, its home/ and home/comment.md
    artifacts,      \* artifacts/<job>/ exists
    secretsDir,     \* secrets/<owner>/<repo>/ exists
    now,            \* filesystem clock
    gc,             \* the garbage collector: path chosen, free MB measured, ticks used
    delivery,       \* the webhook delivery being handled (static)
    repoDir,        \* .github/ci of the repository at the event's SHA (static)
    hook,           \* locals of handleWebhook / handleCommands / handleEvent
    spawnedJobs,    \* jobs started with `go s.runJob`, in order
    replies,        \* reply comments posted by handleCommands, in order
    allowedDomains, \* Config.NetSandbox.AllowedDomains (static)
    cgroupRoot,     \* the supervisor's own cgroup path at start-up (static)
    nft,            \* the packet filter: ruleset installed, set `allow`
    dns,            \* the last DNS request handled and its reply
    packet,         \* the last packet that went through the output hook
    request,        \* the HTTP request for a job's log or artifacts being served
    parse,          \* the text handed to the directive parser and its result
    procs           \* the cgroup of the supervisor and of each job container

\* The webhook pipeline, the network sandbox, the job executor, the HTTP
\* endpoints, the directive parser and the cgroup bootstrap are run as
\* specifications of their own; each leaves the state of the others alone.
pipelineVars == <<delivery, repoDir, hook, spawnedJobs, replies>>

sandboxVars == <<allowedDomains, cgroupRoot, nft, dns, packet>>

executorVars == <<config, job, faults, run, runningJobs, logs, trace, commits,
                  cache, jobCache, jobFiles, artifacts, secretsDir, now, gc>>

serverVars == <<request>>

parserVars == <<parse>>

cgroupVars == <<procs>>

vars == <<executorVars, pipelineVars, sandboxVars, serverVars, parserVars,
          cgroupVars>>

\* What no step of a job or of the garbage collector changes.
static == <<config, job, faults, pipelineVars, sandboxVars, serverVars,
           parserVars, cgroupVars>>

fsVars == <<cache, jobCache, jobFiles, artifacts, secretsDir, now>>

NoPermissionsGranted == [k \in PermFields |-> "none"]

NoToken == [Permissions |-> NoPermissionsGranted, Repositories |-> <<>>]

NoFiles == [dir |-> FALSE, home |-> "absent", comment |-> "none"]

\* The locals of a goroutine that has not run yet.
NewRun(p) ==
    [ pc |-> p, err |-> "none", defers |-> <<>>, token |-> NoToken,
      mounts |-> {}, cacheIdx |-> 0, cacheBaseName |-> "", scanned |-> <<>>,
      status |-> "none", container |-> "none", task |-> "none",
      hadPrimary |-> FALSE, posts |-> <<>> ]

\* ---------------------------------------------------------------------------
\* Webhook pipeline and network sandbox at rest
\* ---------------------------------------------------------------------------

\* Strings the code takes apart are kept as the sequence of the pieces between
\* their separators: a ref or branch name between "/" ("refs/heads/main" is
\* <<"refs", "heads", "main">>), a domain name between "." ("github.com." is
\* <<"github", "com", "">>), a file name between ".". The empty string is <<"">>.
EmptyString == <<"">>

NoDelivery ==
    [ type |-> "none", signed |-> TRUE, action |-> "", ref |-> EmptyString,
      queue |-> FALSE, queueTarget |-> EmptyString, headCommit |-> FALSE,
      number |-> 0, base |-> EmptyString, headOwner |-> "", body |-> <<>>,
      permission |-> "", isPR |-> FALSE ]

\* The locals of a handleWebhook call that has just received its request.
NewHook ==
    [ pc |-> "received", events |-> <<>>, errors |-> <<>>, line |-> 1,
      ev |-> 1, file |-> 1, jobs |-> <<>>, err |-> "none", response |-> 0,
      expired |-> FALSE ]

NoDir == [outcome |-> "404", files |-> <<>>]

PipelineIdle ==
    /\ delivery = NoDelivery
    /\ repoDir = NoDir
    /\ hook = [NewHook EXCEPT !.pc = "done"]
    /\ spawnedJobs = <<>>
    /\ replies = <<>>

NoRequest ==
    [ msg |-> <<>>, rcode |-> "none", answer |-> <<>>, lookups |-> <<>>,
      added |-> {} ]

NoPacket ==
    [ cgroup |-> <<>>, daddr |-> "", proto |-> "none", listed |-> FALSE,
      gated |-> FALSE, verdict |-> "none" ]

SandboxIdle ==
    /\ allowedDomains = <<>>
    /\ cgroupRoot = <<>>
    /\ nft = [installed |-> FALSE, allow |-> {}]
    /\ dns = NoRequest
    /\ packet = NoPacket

\* No HTTP request is being served.
NoHTTP ==
    [ endpoint |-> "none", jobID |-> <<>>, pc |-> "idle", status |-> 0,
      fs |-> <<>>, padded |-> FALSE, pos |-> 0, body |-> <<>>,
      last |-> "none", slept |-> FALSE, end |-> "none" ]

ServerIdle == request = NoHTTP

\* Nothing has been handed to the parser.
NoParse ==
    [ called |-> "none", kind |-> "none", input |-> <<>>, src |-> <<>>,
      res |-> [returned |-> FALSE, err |-> "none"] ]

ParserIdle == parse = NoParse

\* The supervisor is in the cgroup it was started in and no container exists.
NoProcs == [bootstrapped |-> FALSE, supervisor |-> <<>>, containers |-> {}]

CgroupIdle == procs = NoProcs

OthersIdle == ServerIdle /\ ParserIdle /\ CgroupIdle

\* ---------------------------------------------------------------------------
\* Helpers
\* ---------------------------------------------------------------------------

\* Outcomes of a call of kind k: it may fail only when the environment of the
\* scenario fails calls of that kind. "api": provider and container-runtime
\* calls; "stage": directory and file creation; "cache": creating and
\* discarding the per-run snapshot; "commit": deleting and renaming committed
\* subvolumes; "lowspace": the cache filesystem may be measured short of space.
FaultKinds == {"api", "stage", "cache", "commit", "lowspace"}

Outcome(k) == IF k \in faults THEN BOOLEAN ELSE {TRUE}

\* The goroutine of job j moves to position p.
Goto(j, p) == run' = [run EXCEPT ![j].pc = p]

\* runJobInner returns e (or panics): its deferred calls run next.
Return(j, e) == run' = [run EXCEPT ![j].pc = "unwind", ![j].err = e]

\* Job j makes the call c.
Did(j, c) == trace' = [trace EXCEPT ![j] = Append(@, c)]

At(j, p) == run[j].pc = p

primary(j) == job[j].Cache[1]

\* ---------------------------------------------------------------------------
\* getRepoToken
\* ---------------------------------------------------------------------------

\* getRepoTokenInvalid with the default case of the switch left out.
getRepoTokenInvalidValuesOnly(jb) ==
    /\ jb.Trusted
    /\ \E k \in DOMAIN jb.Permissions : jb.Permissions[k] \notin {"read", "write"}

\* The loop over job.Permissions returns an error for a value other than
\* read / write and for a key outside the switch; it runs only when Trusted.
getRepoTokenInvalid(jb) ==
    /\ jb.Trusted
    /\ \E k \in DOMAIN jb.Permissions :
          \/ jb.Permissions[k] \notin {"read", "write"}
          \/ k \notin AcceptedKeys

\* getRepoTokenOptions without the test of job.Trusted.
getRepoTokenOptionsUngated(jb) ==
    [ Permissions |->
        [ k \in PermFields |->
            IF k \in DOMAIN jb.Permissions /\ k \in AcceptedKeys
            THEN jb.Permissions[k]
            ELSE IF k \in {"metadata", "contents"} THEN "read" ELSE "none" ],
      Repositories |-> <<jb.Repo>> \o jb.PermissionRepos ]

\* The InstallationTokenOptions the token is requested with.
getRepoTokenOptions(jb) ==
    [ Permissions |->
        [ k \in PermFields |->
            IF jb.Trusted /\ k \in DOMAIN jb.Permissions /\ k \in AcceptedKeys
            THEN jb.Permissions[k]
            ELSE IF k \in {"metadata", "contents"} THEN "read" ELSE "none" ],
      Repositories |->
        IF jb.Trusted THEN <<jb.Repo>> \o jb.PermissionRepos ELSE <<jb.Repo>> ]

\* ---------------------------------------------------------------------------
\* runJob
\* ---------------------------------------------------------------------------

\* go s.runJob(...): the goroutine starts and registers the job.
Register(j) ==
    /\ At(j, "spawned")
    /\ runningJobs' = runningJobs \cup {j}
    /\ Goto(j, "createLog")
    /\ UNCHANGED <<static, logs, trace, commits, fsVars, gc>>

\* Unregister with the delete left out.
UnregisterLeaks(j) ==
    /\ At(j, "unregister")
    /\ Goto(j, "done")
    /\ Did(j, "unregister")
    /\ UNCHANGED <<static, runningJobs, logs, commits, fsVars, gc>>

\* The deferred delete(s.runningJobs, job.ID), run when runJob returns.
Unregister(j) ==
    /\ At(j, "unregister")
    /\ runningJobs' = runningJobs \ {j}
    /\ Goto(j, "done")
    /\ Did(j, "unregister")
    /\ UNCHANGED <<static, logs, commits, fsVars, gc>>

\* os.Create(logs/<id>); on failure runJob returns.
CreateLog(j) ==
    /\ At(j, "createLog")
    /\ \E ok \in Outcome("stage") :
         IF ok
         THEN /\ logs' = [logs EXCEPT ![j] = [exists |-> TRUE, lines |-> <<>>]]
              /\ Goto(j, "githubClient")
         ELSE /\ Goto(j, "unregister")
              /\ UNCHANGED logs
    /\ UNCHANGED <<static, runningJobs, trace, commits, fsVars, gc>>

\* s.githubClient(job.InstallationID); on failure runJob returns.
GithubClient(j) ==
    /\ At(j, "githubClient")
    /\ \E ok \in Outcome("api") : Goto(j, IF ok THEN "pending" ELSE "unregister")
    /\ UNCHANGED <<static, runningJobs, logs, trace, commits, fsVars, gc>>

\* setStatus: the commit status posted for job j. Context is "ci/<name>" and
\* TargetURL is "<external_url>/jobs/<id>", kept here as their parts.
setStatus(j, state) ==
    [ State |-> state,
      Context |-> <<"ci", job[j].Name>>,
      TargetURL |-> <<config.ExternalURL, "jobs", j>> ]

\* PostPending with the status post left out.
PostPendingSkipped(j) ==
    /\ At(j, "pending")
    /\ Goto(j, "token")
    /\ UNCHANGED <<static, runningJobs, logs, trace, commits, fsVars, gc>>

\* s.setStatus(..., "pending"); its error is only logged.
PostPending(j) ==
    /\ At(j, "pending")
    /\ Did(j, "status:pending")
    /\ run' = [run EXCEPT ![j].pc = "token",
                          ![j].posts = Append(@, setStatus(j, "pending"))]
    /\ UNCHANGED <<static, runningJobs, logs, commits, fsVars, gc>>

\* WriteResult writing the line only for a returned error, not for a
\* recovered panic.
WriteResultErrorsOnly(j) ==
    /\ At(j, "result")
    /\ logs' = IF run[j].err = "error"
               THEN [logs EXCEPT ![j].lines = Append(@, "run failed:")]
               ELSE logs
    /\ Goto(j, "postResult")
    /\ UNCHANGED <<static, runningJobs, trace, commits, fsVars, gc>>

\* fmt.Fprintf(logs, "run failed: ...") when nopanic returned an error.
WriteResult(j) ==
    /\ At(j, "result")
    /\ logs' = IF run[j].err # "none"
               THEN [logs EXCEPT ![j].lines = Append(@, "run failed:")]
               ELSE logs
    /\ Goto(j, "postResult")
    /\ UNCHANGED <<static, runningJobs, trace, commits, fsVars, gc>>

\* PostResult making no status post after a recovered panic.
PostResultUnlessPanic(j) ==
    /\ At(j, "postResult")
    /\ LET result == IF run[j].err # "none" THEN "failure" ELSE "success" IN
       IF run[j].err = "panic"
       THEN Goto(j, "unregister") /\ UNCHANGED trace
       ELSE /\ Did(j, IF result = "failure" THEN "status:failure" ELSE "status:success")
            /\ run' = [run EXCEPT ![j].pc = "unregister",
                                  ![j].posts = Append(@, setStatus(j, result))]
    /\ UNCHANGED <<static, runningJobs, logs, commits, fsVars, gc>>

\* s.setStatus(..., result); its error is only logged; runJob returns.
PostResult(j) ==
    /\ At(j, "postResult")
    /\ LET result == IF run[j].err # "none" THEN "failure" ELSE "success" IN
       /\ Did(j, IF result = "failure" THEN "status:failure" ELSE "status:success")
       /\ run' = [run EXCEPT ![j].pc = "unregister",
                             ![j].posts = Append(@, setStatus(j, result))]
    /\ UNCHANGED <<static, runningJobs, logs, commits, fsVars, gc>>

\* ---------------------------------------------------------------------------
\* runJobInner: token, image, staging
\* ---------------------------------------------------------------------------

\* s.getRepoToken: validation error, ghinstallation.New failing (itr is nil
\* and the assignment to itr.InstallationTokenOptions panics), itr.Token
\* failing, or a token minted with the computed options.
GetRepoToken(j) ==
    /\ At(j, "token")
    /\ IF getRepoTokenInvalid(job[j])
       THEN Return(j, "error")
       ELSE \E outcome \in IF "api" \in faults
                            THEN {"ok", "newFails", "tokenFails"} ELSE {"ok"} :
              CASE outcome = "ok" ->
                     run' = [run EXCEPT ![j].pc = "image",
                                        ![j].token = getRepoTokenOptions(job[j])]
                [] outcome = "newFails" -> Return(j, "panic")
                [] OTHER -> Return(j, "error")
    /\ Did(j, "token")
    /\ UNCHANGED <<static, runningJobs, logs, commits, fsVars, gc>>

\* GetImage, Pull on a miss, and reading the image config.
GetImage(j) ==
    /\ At(j, "image")
    /\ \E ok \in Outcome("api") : IF ok THEN Goto(j, "mkArtifacts") ELSE Return(j, "error")
    /\ UNCHANGED <<static, runningJobs, logs, trace, commits, fsVars, gc>>

\* os.MkdirAll(artifactsDir).
MkArtifacts(j) ==
    /\ At(j, "mkArtifacts")
    /\ \E ok \in Outcome("stage") :
         IF ok
         THEN /\ artifacts' = [artifacts EXCEPT ![j] = TRUE]
              /\ Goto(j, "mkJobDir")
         ELSE /\ Return(j, "error")
              /\ UNCHANGED artifacts
    /\ Did(j, "mkArtifacts")
    /\ UNCHANGED <<static, runningJobs, logs, commits, cache, jobCache,
                   jobFiles, secretsDir, now, gc>>

\* os.MkdirAll(jobDir).
MkJobDir(j) ==
    /\ At(j, "mkJobDir")
    /\ \E ok \in Outcome("stage") :
         IF ok
         THEN /\ jobFiles' = [jobFiles EXCEPT ![j].dir = TRUE]
              /\ Goto(j, "mkHome")
         ELSE /\ Return(j, "error")
              /\ UNCHANGED jobFiles
    /\ UNCHANGED <<static, runningJobs, logs, trace, commits, cache,
                   jobCache, artifacts, secretsDir, now, gc>>

\* MkHome without the deferred os.RemoveAll(jobDir).
MkHomeNoDefer(j) ==
    /\ At(j, "mkHome")
    /\ \E ok \in Outcome("stage") :
         IF ok
         THEN /\ jobFiles' = [jobFiles EXCEPT ![j].home = "empty"]
              /\ Goto(j, "mkCacheDir")
              /\ Did(j, "mkHome")
         ELSE /\ Return(j, "error")
              /\ UNCHANGED <<jobFiles, trace>>
    /\ UNCHANGED <<static, runningJobs, logs, commits, cache,
                   jobCache, artifacts, secretsDir, now, gc>>

\* os.MkdirAll(home), then defer os.RemoveAll(jobDir).
MkHome(j) ==
    /\ At(j, "mkHome")
    /\ \E ok \in Outcome("stage") :
         IF ok
         THEN /\ jobFiles' = [jobFiles EXCEPT ![j].home = "empty"]
              /\ run' = [run EXCEPT ![j].pc = "mkCacheDir",
                                    ![j].defers = Append(@, "rmJobDir")]
              /\ Did(j, "mkHome")
         ELSE /\ Return(j, "error")
              /\ UNCHANGED <<jobFiles, trace>>
    /\ UNCHANGED <<static, runningJobs, logs, commits, cache,
                   jobCache, artifacts, secretsDir, now, gc>>

\* os.MkdirAll(cacheDir).
MkCacheDir(j) ==
    /\ At(j, "mkCacheDir")
    /\ \E ok \in Outcome("stage") :
         IF ok
         THEN run' = [run EXCEPT ![j].pc = "scan", ![j].cacheIdx = 1]
         ELSE Return(j, "error")
    /\ UNCHANGED <<static, runningJobs, logs, trace, commits, fsVars, gc>>

\* ---------------------------------------------------------------------------
\* runJobInner: cache provisioning
\* ---------------------------------------------------------------------------

\* ScanCache without the break: the loop runs to the end of the list and the
\* last tag that exists is the base.
ScanCacheNoBreak(j) ==
    /\ At(j, "scan")
    /\ LET i     == run[j].cacheIdx
           tag   == job[j].Cache[i]
           found == Exists(cache[tag])
       IN  run' = [run EXCEPT
                     ![j].scanned = Append(@, found),
                     ![j].cacheBaseName = IF found THEN tag ELSE @,
                     ![j].cacheIdx = IF i = Len(job[j].Cache) THEN @ ELSE @ + 1,
                     ![j].pc = IF i = Len(job[j].Cache)
                               THEN "provision" ELSE "scan"]
    /\ UNCHANGED <<static, runningJobs, logs, trace, commits, fsVars, gc>>

\* One iteration of the loop over job.Cache: os.Stat of the tag's path; the
\* first tag that exists as a directory is the base and ends the loop.
ScanCache(j) ==
    /\ At(j, "scan")
    /\ LET i     == run[j].cacheIdx
           tag   == job[j].Cache[i]
           found == Exists(cache[tag])
       IN  run' = [run EXCEPT
                     ![j].scanned = Append(@, found),
                     ![j].cacheBaseName = IF found THEN tag ELSE @,
                     ![j].cacheIdx = IF found THEN @ ELSE @ + 1,
                     ![j].pc = IF found \/ i = Len(job[j].Cache)
                               THEN "provision" ELSE "scan"]
    /\ UNCHANGED <<static, runningJobs, logs, trace, commits, fsVars, gc>>

\* Provision creating an empty subvolume even when a base was found.
ProvisionAlwaysCreates(j) ==
    /\ At(j, "provision")
    /\ \E ok \in Outcome("cache") :
         IF ok
         THEN /\ jobCache' = [jobCache EXCEPT ![j] = Vol(j, 0, now)]
              /\ now' = now + 1
              /\ run' = [run EXCEPT ![j].pc = "writeHome",
                                    ![j].defers = Append(@, "discard")]
              /\ Did(j, "provision")
         ELSE /\ Return(j, "error")
              /\ UNCHANGED <<jobCache, now, trace>>
    /\ UNCHANGED <<static, runningJobs, logs, commits, cache, jobFiles,
                   artifacts, secretsDir, gc>>

\* Provision without the deferred discard of jobs/<job>/cache.
ProvisionNoDiscard(j) ==
    /\ At(j, "provision")
    /\ LET base == run[j].cacheBaseName
           new  == IF base = ""
                   THEN Vol(j, 0, now)
                   ELSE Vol(j, cache[base].data, cache[base].mtime)
       IN  \E ok \in Outcome("cache") :
             IF ok /\ (base = "" \/ Exists(cache[base]))
             THEN /\ jobCache' = [jobCache EXCEPT ![j] = new]
                  /\ now' = IF base = "" THEN now + 1 ELSE now
                  /\ Goto(j, "writeHome")
                  /\ Did(j, "provision")
             ELSE /\ Return(j, "error")
                  /\ UNCHANGED <<jobCache, now, trace>>
    /\ UNCHANGED <<static, runningJobs, logs, commits, cache, jobFiles,
                   artifacts, secretsDir, gc>>

\* btrfs subvolume create (no base) or btrfs subvolume snapshot (base) into
\* jobs/<job>/cache, then defer the discard of jobs/<job>/cache.
\* A snapshot copies the base, its root directory's timestamps included.
Provision(j) ==
    /\ At(j, "provision")
    /\ LET base == run[j].cacheBaseName
           new  == IF base = ""
                   THEN Vol(j, 0, now)
                   ELSE Vol(j, cache[base].data, cache[base].mtime)
       IN  \E ok \in Outcome("cache") :
             IF ok /\ (base = "" \/ Exists(cache[base]))
             THEN /\ jobCache' = [jobCache EXCEPT ![j] = new]
                  /\ now' = IF base = "" THEN now + 1 ELSE now
                  /\ run' = [run EXCEPT ![j].pc = "writeHome",
                                        ![j].defers = Append(@, "discard")]
                  /\ Did(j, "provision")
             ELSE /\ Return(j, "error")
                  /\ UNCHANGED <<jobCache, now, trace>>
    /\ UNCHANGED <<static, runningJobs, logs, commits, cache, jobFiles,
                   artifacts, secretsDir, gc>>

\* .netrc, .gitconfig, job.json and entrypoint.sh written into home.
WriteHome(j) ==
    /\ At(j, "writeHome")
    /\ \E ok \in Outcome("stage") :
         IF ok
         THEN /\ jobFiles' = [jobFiles EXCEPT ![j].home = "staged"]
              /\ Goto(j, "mounts")
         ELSE /\ Return(j, "error")
              /\ UNCHANGED jobFiles
    /\ UNCHANGED <<static, runningJobs, logs, trace, commits, cache,
                   jobCache, artifacts, secretsDir, now, gc>>

\* ---------------------------------------------------------------------------
\* runJobInner: container and task
\* ---------------------------------------------------------------------------

Mount(src, dst) == [Source |-> src, Destination |-> dst]

\* The mounts every container gets.
baseMounts ==
    { Mount("jobs/<job>/home", "/ci"),
      Mount("jobs/<job>/cache", "/ci/cache"),
      Mount("artifacts/<job>", "/ci/artifacts"),
      IF config.NetSandbox
      THEN Mount("<data>/resolv.conf", "/etc/resolv.conf")
      ELSE Mount("/etc/resolv.conf", "/etc/resolv.conf") }

secretMount == Mount("secrets/<owner>/<repo>", "/ci/secrets")

\* The mount list of job jb's container spec.
jobMounts(jb) == IF jb.Trusted THEN baseMounts \cup {secretMount} ELSE baseMounts

\* Building the mount list; a trusted job creates the secrets directory first.
BuildMounts(j) ==
    /\ At(j, "mounts")
    /\ \E ok \in Outcome("stage") :
         IF ok \/ ~job[j].Trusted
         THEN /\ secretsDir' = (secretsDir \/ job[j].Trusted)
              /\ run' = [run EXCEPT ![j].pc = "newContainer",
                                    ![j].mounts = jobMounts(job[j])]
         ELSE /\ Return(j, "error")
              /\ UNCHANGED secretsDir
    /\ UNCHANGED <<static, runningJobs, logs, trace, commits, cache,
                   jobCache, jobFiles, artifacts, now, gc>>

\* s.containerd.NewContainer, then defer container.Delete.
NewContainer(j) ==
    /\ At(j, "newContainer")
    /\ \E ok \in Outcome("api") :
         IF ok
         THEN run' = [run EXCEPT ![j].pc = "newTask",
                                 ![j].container = "created",
                                 ![j].defers = Append(@, "containerDelete")]
         ELSE Return(j, "error")
    /\ Did(j, "newContainer")
    /\ UNCHANGED <<static, runningJobs, logs, commits, fsVars, gc>>

\* NewTask with the two deferred task calls registered in the other order.
NewTaskKillLast(j) ==
    /\ At(j, "newTask")
    /\ \E ok \in Outcome("api") :
         IF ok
         THEN run' = [run EXCEPT ![j].pc = "start",
                                 ![j].task = "created",
                                 ![j].defers = @ \o <<"taskKill", "taskDelete">>]
         ELSE Return(j, "error")
    /\ UNCHANGED <<static, runningJobs, logs, trace, commits, fsVars, gc>>

\* container.NewTask, then defer task.Delete and defer task.Kill.
NewTask(j) ==
    /\ At(j, "newTask")
    /\ \E ok \in Outcome("api") :
         IF ok
         THEN run' = [run EXCEPT ![j].pc = "start",
                                 ![j].task = "created",
                                 ![j].defers = @ \o <<"taskDelete", "taskKill">>]
         ELSE Return(j, "error")
    /\ UNCHANGED <<static, runningJobs, logs, trace, commits, fsVars, gc>>

\* task.Start.
StartTask(j) ==
    /\ At(j, "start")
    /\ \E ok \in Outcome("api") :
         IF ok
         THEN run' = [run EXCEPT ![j].pc = "wait", ![j].task = "running"]
         ELSE Return(j, "error")
    /\ UNCHANGED <<static, runningJobs, logs, trace, commits, fsVars, gc>>

\* task.Wait.
WaitTask(j) ==
    /\ At(j, "wait")
    /\ \E ok \in Outcome("api") : IF ok THEN Goto(j, "exited") ELSE Return(j, "error")
    /\ UNCHANGED <<static, runningJobs, logs, trace, commits, fsVars, gc>>

\* status := <-statusC. The payload has run: it has written its output to
\* the log, left its cache contents and comment.md, and exited; the exit
\* status carries the payload's exit code or an error of the runtime.
TaskExited(j) ==
    /\ At(j, "exited")
    /\ LET sc == job[j].Script IN
       /\ \E st \in {IF sc.exit = 0 THEN "exit0" ELSE "exit1"}
                      \cup (IF "api" \in faults THEN {"error"} ELSE {}) :
            run' = [run EXCEPT ![j].pc = "commitStat", ![j].status = st,
                               ![j].task = "stopped"]
       /\ jobCache' = IF sc.write = -1 THEN jobCache
                      ELSE [jobCache EXCEPT ![j] = Vol(j, sc.write, now)]
       /\ now' = IF sc.write = -1 THEN now ELSE now + 1
       /\ jobFiles' = [jobFiles EXCEPT ![j].comment = sc.comment]
       /\ logs' = [logs EXCEPT ![j].lines = Append(@, "output")]
    /\ UNCHANGED <<static, runningJobs, trace, commits, cache, artifacts,
                   secretsDir, gc>>

\* ---------------------------------------------------------------------------
\* runJobInner: cache commit, comment, return
\* ---------------------------------------------------------------------------

\* os.Stat(primaryPath): the old primary is deleted only when it is there.
CommitStat(j) ==
    /\ At(j, "commitStat")
    /\ run' = [run EXCEPT
                 ![j].hadPrimary = Exists(cache[primary(j)]),
                 ![j].pc = IF Exists(cache[primary(j)])
                           THEN "commitDelete" ELSE "commitRename"]
    /\ Did(j, "commitStart")
    /\ UNCHANGED <<static, runningJobs, logs, commits, fsVars, gc>>

\* btrfs subvolume delete primaryPath; on failure os.RemoveAll is tried.
CommitDelete(j) ==
    /\ At(j, "commitDelete")
    /\ \E ok \in Outcome("commit") :
         IF ok /\ Exists(cache[primary(j)])
         THEN /\ cache' = [cache EXCEPT ![primary(j)] = NoVol]
              /\ Goto(j, "commitRename")
         ELSE /\ Goto(j, "commitRmAll")
              /\ UNCHANGED cache
    /\ UNCHANGED <<static, runningJobs, logs, trace, commits, jobCache,
                   jobFiles, artifacts, secretsDir, now, gc>>

\* os.RemoveAll(primaryPath): nothing to do when the path is gone; otherwise
\* it removes the tree, or fails after removing the contents only, or fails
\* having removed nothing. Its error is only logged.
CommitRmAll(j) ==
    /\ At(j, "commitRmAll")
    /\ LET p == primary(j) IN
       IF ~Exists(cache[p])
       THEN UNCHANGED <<cache, now>>
       ELSE \E outcome \in IF "commit" \in faults
                            THEN {"removed", "emptied", "failed"}
                            ELSE {"removed"} :
              CASE outcome = "removed" ->
                     /\ cache' = [cache EXCEPT ![p] = NoVol]
                     /\ UNCHANGED now
                [] outcome = "emptied" ->
                     /\ cache' = [cache EXCEPT ![p] = Vol(@.run, 0, now)]
                     /\ now' = now + 1
                [] OTHER -> UNCHANGED <<cache, now>>
    /\ Goto(j, "commitRename")
    /\ UNCHANGED <<static, runningJobs, logs, trace, commits, jobCache,
                   jobFiles, artifacts, secretsDir, gc>>

\* The entry a finished commit leaves in commits: the job, whether the rename
\* succeeded, and the jobs that had not yet looked at the cache directory.
CommitRecord(j, ok) ==
    [ job |-> j, ok |-> ok,
      before |-> {k \in Jobs : run[k].pc # "none" /\ run[k].scanned = <<>>} ]

\* rename(2) of a directory succeeds only onto a missing path or an empty
\* directory.
canRename(src, dst) == Exists(src) /\ (~Exists(dst) \/ dst.data = 0)

\* CommitRename renaming onto another path: the snapshot leaves
\* jobs/<job>/cache but does not arrive at the primary.
CommitRenameElsewhere(j) ==
    /\ At(j, "commitRename")
    /\ LET p == primary(j) IN
       \E ok \in Outcome("commit") :
         IF ok /\ canRename(jobCache[j], cache[p])
         THEN /\ jobCache' = [jobCache EXCEPT ![j] = NoVol]
              /\ commits' = Append(commits, CommitRecord(j, TRUE))
              /\ UNCHANGED cache
         ELSE /\ commits' = Append(commits, CommitRecord(j, FALSE))
              /\ UNCHANGED <<cache, jobCache>>
    /\ Goto(j, "comment")
    /\ Did(j, "commit")
    /\ UNCHANGED <<static, runningJobs, logs, jobFiles, artifacts,
                   secretsDir, now, gc>>

\* CommitRename moving with mv semantics: onto an occupied primary the
\* snapshot is moved inside it and the call succeeds.
CommitRenameInto(j) ==
    /\ At(j, "commitRename")
    /\ LET p == primary(j) IN
       \E ok \in Outcome("commit") :
         IF ok /\ Exists(jobCache[j])
         THEN /\ cache' = IF Exists(cache[p]) THEN cache
                          ELSE [cache EXCEPT ![p] = jobCache[j]]
              /\ jobCache' = [jobCache EXCEPT ![j] = NoVol]
              /\ commits' = Append(commits, CommitRecord(j, TRUE))
         ELSE /\ commits' = Append(commits, CommitRecord(j, FALSE))
              /\ UNCHANGED <<cache, jobCache>>
    /\ Goto(j, "comment")
    /\ Did(j, "commit")
    /\ UNCHANGED <<static, runningJobs, logs, jobFiles, artifacts,
                   secretsDir, now, gc>>

\* CommitRename copying instead of moving: jobs/<job>/cache stays.
CommitRenameCopies(j) ==
    /\ At(j, "commitRename")
    /\ LET p == primary(j) IN
       \E ok \in Outcome("commit") :
         IF ok /\ canRename(jobCache[j], cache[p])
         THEN /\ cache' = [cache EXCEPT ![p] = jobCache[j]]
              /\ commits' = Append(commits, CommitRecord(j, TRUE))
         ELSE /\ commits' = Append(commits, CommitRecord(j, FALSE))
              /\ UNCHANGED cache
    /\ Goto(j, "comment")
    /\ Did(j, "commit")
    /\ UNCHANGED <<static, runningJobs, logs, jobCache, jobFiles, artifacts,
                   secretsDir, now, gc>>

\* os.Rename(jobCacheDir, primaryPath); its error is only logged.
CommitRename(j) ==
    /\ At(j, "commitRename")
    /\ LET p == primary(j) IN
       \E ok \in Outcome("commit") :
         IF ok /\ canRename(jobCache[j], cache[p])
         THEN /\ cache' = [cache EXCEPT ![p] = jobCache[j]]
              /\ jobCache' = [jobCache EXCEPT ![j] = NoVol]
              /\ commits' = Append(commits, CommitRecord(j, TRUE))
         ELSE /\ commits' = Append(commits, CommitRecord(j, FALSE))
              /\ UNCHANGED <<cache, jobCache>>
    /\ Goto(j, "comment")
    /\ Did(j, "commit")
    /\ UNCHANGED <<static, runningJobs, logs, jobFiles, artifacts,
                   secretsDir, now, gc>>

\* postComment called when the task has exited, in place of the commit.
PostCommentEarly(j) ==
    /\ At(j, "commitStat")
    /\ IF job[j].PullRequest /\ jobFiles[j].comment = "file"
       THEN \E readOk \in Outcome("stage") :
              Did(j, IF readOk THEN "comment" ELSE "comment:unreadable")
       ELSE UNCHANGED trace
    /\ Goto(j, "return")
    /\ UNCHANGED <<static, runningJobs, logs, commits, fsVars, gc>>

\* postComment without the test for a directory or a symbolic link.
PostCommentAnyKind(j) ==
    /\ At(j, "comment")
    /\ IF job[j].PullRequest /\ jobFiles[j].comment # "none"
       THEN \E readOk \in Outcome("stage") :
              Did(j, IF readOk THEN "comment" ELSE "comment:unreadable")
       ELSE UNCHANGED trace
    /\ Goto(j, "return")
    /\ UNCHANGED <<static, runningJobs, logs, commits, fsVars, gc>>

\* s.postComment: only for a pull request whose home/comment.md is a regular
\* file that can be read; its error is only logged.
PostComment(j) ==
    /\ At(j, "comment")
    /\ IF job[j].PullRequest /\ jobFiles[j].comment = "file"
       THEN \E readOk \in Outcome("stage") :
              Did(j, IF readOk THEN "comment" ELSE "comment:unreadable")
       ELSE UNCHANGED trace
    /\ Goto(j, "return")
    /\ UNCHANGED <<static, runningJobs, logs, commits, fsVars, gc>>

\* ReturnInner without the test of the exit code.
ReturnInnerIgnoresExitCode(j) ==
    /\ At(j, "return")
    /\ Return(j, IF run[j].status = "error" THEN "error" ELSE "none")
    /\ UNCHANGED <<static, runningJobs, logs, trace, commits, fsVars, gc>>

\* The end of runJobInner: status.Error() or a non-zero exit code is the error.
ReturnInner(j) ==
    /\ At(j, "return")
    /\ Return(j, IF run[j].status = "exit0" THEN "none" ELSE "error")
    /\ UNCHANGED <<static, runningJobs, logs, trace, commits, fsVars, gc>>

\* ---------------------------------------------------------------------------
\* runJobInner: deferred calls, last registered first
\* ---------------------------------------------------------------------------

Deferred(j, d) ==
    /\ At(j, "unwind")
    /\ run[j].defers # <<>>
    /\ run[j].defers[Len(run[j].defers)] = d

Pop(q) == SubSeq(q, 1, Len(q) - 1)

\* defer task.Kill(ctx, SIGKILL).
DeferTaskKill(j) ==
    /\ Deferred(j, "taskKill")
    /\ run' = [run EXCEPT ![j].defers = Pop(@),
                          ![j].task = IF @ = "stopped" THEN @ ELSE "killed"]
    /\ Did(j, "taskKill")
    /\ UNCHANGED <<static, runningJobs, logs, commits, fsVars, gc>>

\* defer task.Delete(ctx).
DeferTaskDelete(j) ==
    /\ Deferred(j, "taskDelete")
    /\ \E ok \in Outcome("api") :
         run' = [run EXCEPT ![j].defers = Pop(@),
                            ![j].task = IF ok THEN "deleted" ELSE @]
    /\ Did(j, "taskDelete")
    /\ UNCHANGED <<static, runningJobs, logs, commits, fsVars, gc>>

\* defer container.Delete(ctx).
DeferContainerDelete(j) ==
    /\ Deferred(j, "containerDelete")
    /\ \E ok \in Outcome("api") :
         run' = [run EXCEPT ![j].defers = Pop(@),
                            ![j].container = IF ok THEN "deleted" ELSE @]
    /\ Did(j, "containerDelete")
    /\ UNCHANGED <<static, runningJobs, logs, commits, fsVars, gc>>

\* A discard that does not stat jobCacheDir first and always runs the delete.
DeferDiscardNoStat(j) ==
    /\ Deferred(j, "discard")
    /\ run' = [run EXCEPT ![j].defers = Pop(@)]
    /\ \E ok \in Outcome("cache") :
         jobCache' = IF ok THEN [jobCache EXCEPT ![j] = NoVol] ELSE jobCache
    /\ Did(j, "discard")
    /\ UNCHANGED <<static, runningJobs, logs, commits, cache, jobFiles,
                   artifacts, secretsDir, now, gc>>

\* The deferred discard: btrfs subvolume delete jobCacheDir if it is there.
DeferDiscard(j) ==
    /\ Deferred(j, "discard")
    /\ run' = [run EXCEPT ![j].defers = Pop(@)]
    /\ IF Exists(jobCache[j])
       THEN /\ \E ok \in Outcome("cache") :
                 jobCache' = IF ok THEN [jobCache EXCEPT ![j] = NoVol] ELSE jobCache
            /\ Did(j, "discard")
       ELSE UNCHANGED <<jobCache, trace>>
    /\ UNCHANGED <<static, runningJobs, logs, commits, cache, jobFiles,
                   artifacts, secretsDir, now, gc>>

\* The deferred os.RemoveAll(jobDir); its error is only logged.
DeferRmJobDir(j) ==
    /\ Deferred(j, "rmJobDir")
    /\ run' = [run EXCEPT ![j].defers = Pop(@)]
    /\ \E ok \in Outcome("cache") :
         IF ok
         THEN /\ jobFiles' = [jobFiles EXCEPT ![j] = NoFiles]
              /\ jobCache' = [jobCache EXCEPT ![j] = NoVol]
              /\ Did(j, "rmJobDir")
         ELSE /\ UNCHANGED <<jobFiles, jobCache>>
              /\ Did(j, "rmJobDir:failed")
    /\ UNCHANGED <<static, runningJobs, logs, commits, cache, artifacts,
                   secretsDir, now, gc>>

\* nopanic returns to runJob once every deferred call has run; a panic has
\* been recovered into an error.
nopanic(j) ==
    /\ At(j, "unwind")
    /\ run[j].defers = <<>>
    /\ Goto(j, "result")
    /\ UNCHANGED <<static, runningJobs, logs, trace, commits, fsVars, gc>>

\* ---------------------------------------------------------------------------
\* Cache garbage collector
\* ---------------------------------------------------------------------------

present == {t \in Tags : Exists(cache[t])}

\* oldest(cacheDir, 4, &res): the entry with the smallest modification time;
\* among equals the one os.ReadDir lists first.
oldest ==
    IF present = {} THEN ""
    ELSE CHOOSE t \in present :
           \A u \in present :
              \/ cache[t].mtime < cache[u].mtime
              \/ cache[t].mtime = cache[u].mtime /\ TagRank(t) <= TagRank(u)

\* First half of deleteOldestCache: measure free space, choose the path.
GCTick ==
    /\ gc.path = ""
    /\ \E freeSpaceMB \in IF "lowspace" \in faults
                           THEN FreeSpaceInputs ELSE {MinFreeSpaceMB + 1} :
         IF freeSpaceMB > MinFreeSpaceMB \/ oldest = ""
         THEN UNCHANGED gc
         ELSE /\ gc.ticks < MaxGCTicks
              /\ gc' = [path |-> oldest, free |-> freeSpaceMB,
                        ticks |-> gc.ticks + 1]
    /\ UNCHANGED <<static, run, runningJobs, logs, trace, commits, fsVars>>

\* Second half: btrfs subvolume delete res.path; its error is only logged.
GCDelete ==
    /\ gc.path # ""
    /\ \E ok \in Outcome("commit") :
         cache' = IF ok /\ Exists(cache[gc.path])
                  THEN [cache EXCEPT ![gc.path] = NoVol] ELSE cache
    /\ gc' = [gc EXCEPT !.path = "", !.free = 0]
    /\ UNCHANGED <<static, run, runningJobs, logs, trace, commits,
                   jobCache, jobFiles, artifacts, secretsDir, now>>

\* ---------------------------------------------------------------------------
\* Initial states
\* ---------------------------------------------------------------------------

pushMain == <<"branch-main", "branch-main">>

pullRequest1 == <<"pr-1", "branch-b", "branch-main">>

Job(trusted, perms, repos, pr, cacheList, script) ==
    [ Trusted |-> trusted, Permissions |-> perms, PermissionRepos |-> repos,
      PullRequest |-> pr, Cache |-> cacheList, Script |-> script,
      Repo |-> "repo", Name |-> "build" ]

plainScript == [write |-> 1, comment |-> "file", exit |-> 0]

plainJob == Job(TRUE, NoPermissions, <<>>, FALSE, pushMain, plainScript)

emptyCache == [t \in Tags |-> NoVol]

\* Committed subvolumes left by earlier runs.
OldCaches == [Tags -> {NoVol, Vol("old", 1, 0)}]

\* A push is always trusted; a pull request is trusted or not.
EventInputs == {e \in [trusted : BOOLEAN, pr : BOOLEAN] : e.pr \/ e.trusted}

\* One job; its trust, event kind, permissions and extra repositories vary.
TrustScenarios ==
    { [ spawned |-> {"a1"},
        job |-> [j \in Jobs |->
                   IF j = "a1"
                   THEN Job(ev.trusted, pm, rp, ev.pr,
                            IF ev.pr THEN pullRequest1 ELSE pushMain, plainScript)
                   ELSE plainJob],
        cache |-> emptyCache,
        sandbox |-> sb,
        faults |-> FaultKinds ] :
      ev \in EventInputs, pm \in PermissionInputs,
      rp \in PermissionRepoInputs, sb \in BOOLEAN }

\* One pull-request job; its trust and the comment.md its payload leaves vary.
CommentScenarios ==
    { [ spawned |-> {"a1"},
        job |-> [j \in Jobs |->
                   IF j = "a1"
                   THEN Job(tr, NoPermissions, <<>>, TRUE, pullRequest1,
                            [write |-> -1, comment |-> cm, exit |-> ex])
                   ELSE plainJob],
        cache |-> emptyCache,
        sandbox |-> FALSE,
        faults |-> FaultKinds ] :
      tr \in BOOLEAN, cm \in CommentKinds, ex \in {0, 1} }

\* One job; its cache list, the committed subvolumes it finds, and what its
\* payload does vary; subvolume operations may fail and space may run low.
CacheScenarios ==
    { [ spawned |-> {"a1"},
        job |-> [j \in Jobs |->
                   IF j = "a1"
                   THEN Job(TRUE, NoPermissions, <<>>, cl = pullRequest1, cl, sc)
                   ELSE plainJob],
        cache |-> c,
        sandbox |-> FALSE,
        faults |-> {"cache", "commit", "lowspace"} ] :
      cl \in CacheLists, c \in OldCaches,
      sc \in {x \in Scripts : x.comment = "none" /\ x.write # 1} }

\* Two jobs of the same (repo, job-name, primary tag) run concurrently; the
\* primary is there or not; the payloads leave different contents; no
\* call fails, or only the operations on committed subvolumes may, or only
\* space may run low.
RaceScenarios ==
    { [ spawned |-> Jobs,
        job |-> [j \in Jobs |->
                   Job(TRUE, NoPermissions, <<>>, FALSE, pushMain,
                       [write |-> IF j = "a1" THEN 1 ELSE w,
                        comment |-> "none", exit |-> 0])],
        cache |-> [t \in Tags |-> IF t = "branch-main" THEN v ELSE NoVol],
        sandbox |-> FALSE,
        faults |-> fl ] :
      w \in {0, 2}, v \in {NoVol, Vol("old", 1, 0)}, fl \in {{}, {"commit"}, {"lowspace"}} }

Scenarios ==
    TrustScenarios \cup CommentScenarios \cup CacheScenarios \cup RaceScenarios

\* The executor's state when the jobs of scenario sc have just been spawned.
ExecutorInit(sc) ==
    /\ config = [NetSandbox |-> sc.sandbox, ExternalURL |-> "https://ci"]
    /\ faults = sc.faults
    /\ job = sc.job
    /\ run = [j \in Jobs |-> NewRun(IF j \in sc.spawned THEN "spawned" ELSE "none")]
    /\ runningJobs = {}
    /\ logs = [j \in Jobs |-> [exists |-> FALSE, lines |-> <<>>]]
    /\ trace = [j \in Jobs |-> <<>>]
    /\ commits = <<>>
    /\ cache = sc.cache
    /\ jobCache = [j \in Jobs |-> NoVol]
    /\ jobFiles = [j \in Jobs |-> NoFiles]
    /\ artifacts = [j \in Jobs |-> FALSE]
    /\ secretsDir = FALSE
    /\ now = 1
    /\ gc = [path |-> "", free |-> 0, ticks |-> 0]

InitOf(sc) ==
    /\ ExecutorInit(sc)
    /\ PipelineIdle
    /\ SandboxIdle
    /\ OthersIdle

Init == \E sc \in Scenarios : InitOf(sc)

\* ---------------------------------------------------------------------------
\* Next-state relation
\* ---------------------------------------------------------------------------

Next ==
    \/ \E j \in Jobs : Register(j)
    \/ \E j \in Jobs : CreateLog(j)
    \/ \E j \in Jobs : GithubClient(j)
    \/ \E j \in Jobs : PostPending(j)
    \/ \E j \in Jobs : GetRepoToken(j)
    \/ \E j \in Jobs : GetImage(j)
    \/ \E j \in Jobs : MkArtifacts(j)
    \/ \E j \in Jobs : MkJobDir(j)
    \/ \E j \in Jobs : MkHome(j)
    \/ \E j \in Jobs : MkCacheDir(j)
    \/ \E j \in Jobs : ScanCache(j)
    \/ \E j \in Jobs : Provision(j)
    \/ \E j \in Jobs : WriteHome(j)
    \/ \E j \in Jobs : BuildMounts(j)
    \/ \E j \in Jobs : NewContainer(j)
    \/ \E j \in Jobs : NewTask(j)
    \/ \E j \in Jobs : StartTask(j)
    \/ \E j \in Jobs : WaitTask(j)
    \/ \E j \in Jobs : TaskExited(j)
    \/ \E j \in Jobs : CommitStat(j)
    \/ \E j \in Jobs : CommitDelete(j)
    \/ \E j \in Jobs : CommitRmAll(j)
    \/ \E j \in Jobs : CommitRename(j)
    \/ \E j \in Jobs : PostComment(j)
    \/ \E j \in Jobs : ReturnInner(j)
    \/ \E j \in Jobs : DeferTaskKill(j)
    \/ \E j \in Jobs : DeferTaskDelete(j)
    \/ \E j \in Jobs : DeferContainerDelete(j)
    \/ \E j \in Jobs : DeferDiscard(j)
    \/ \E j \in Jobs : DeferRmJobDir(j)
    \/ \E j \in Jobs : nopanic(j)
    \/ \E j \in Jobs : WriteResult(j)
    \/ \E j \in Jobs : PostResult(j)
    \/ \E j \in Jobs : Unregister(j)
    \/ GCTick
    \/ GCDelete

Spec == Init /\ [][Next]_vars

\* The next step of the goroutine of job j, whichever it is.
runJob(j) ==
    \/ Register(j)
    \/ CreateLog(j)
    \/ GithubClient(j)
    \/ PostPending(j)
    \/ GetRepoToken(j)
    \/ GetImage(j)
    \/ MkArtifacts(j)
    \/ MkJobDir(j)
    \/ MkHome(j)
    \/ MkCacheDir(j)
    \/ ScanCache(j)
    \/ Provision(j)
    \/ WriteHome(j)
    \/ BuildMounts(j)
    \/ NewContainer(j)
    \/ NewTask(j)
    \/ StartTask(j)
    \/ WaitTask(j)
    \/ TaskExited(j)
    \/ CommitStat(j)
    \/ CommitDelete(j)
    \/ CommitRmAll(j)
    \/ CommitRename(j)
    \/ PostComment(j)
    \/ ReturnInner(j)
    \/ DeferTaskKill(j)
    \/ DeferTaskDelete(j)
    \/ DeferContainerDelete(j)
    \/ DeferDiscard(j)
    \/ DeferRmJobDir(j)
    \/ nopanic(j)
    \/ WriteResult(j)
    \/ PostResult(j)
    \/ Unregister(j)

\* The executor when every call a job makes returns: the goroutine of a job
\* that can take a step eventually takes one.
\* Its scenarios: one pull-request job with every kind of comment.md and
\* every call free to fail, and one push job that finds its primary committed.
FairScenarios ==
    CommentScenarios
    \cup { sc \in CacheScenarios :
             /\ sc.job["a1"].Cache = pushMain
             /\ sc.job["a1"].Script.exit = 0
             /\ \A t \in Tags : Exists(sc.cache[t]) }

FairInit == \E sc \in FairScenarios : InitOf(sc)

FairSpec == FairInit /\ [][Next]_vars /\ \A j \in Jobs : WF_vars(runJob(j))

\* ---------------------------------------------------------------------------
\* Webhook pipeline: inputs
\* ---------------------------------------------------------------------------

\* Largest number of entries in .github/ci and of lines in a comment body.
MaxFiles == 2

MaxLines == 2

\* Owner login of the repository the webhook is for, and of a PR's head repo.
RepoOwner == "org"

OwnerInputs == {"org", "fork"}

\* Repo.DefaultBranch and the branches pushes and pull requests target.
DefaultBranch == <<"main">>

BranchInputs == { <<"main">>, <<"dev">>, <<"release", "1.0">> }

\* The ref of the temporary branch the provider's merge queue pushes for an
\* entry targeting branch t: refs/heads/gh-readonly-queue/<t>/pr-<n>-<sha>.
MergeQueueRef(t) == <<"refs", "heads", "gh-readonly-queue">> \o t \o <<"pr-7-abc">>

PushInputs ==
    { [NoDelivery EXCEPT !.type = "push", !.ref = <<"refs", "heads">> \o b,
                         !.headCommit = hc] :
        b \in BranchInputs, hc \in BOOLEAN }
    \cup
    { [NoDelivery EXCEPT !.type = "push", !.ref = MergeQueueRef(t),
                         !.queue = TRUE, !.queueTarget = t,
                         !.headCommit = TRUE] :
        t \in BranchInputs }
    \cup
    { [NoDelivery EXCEPT !.type = "push", !.ref = r, !.headCommit = TRUE] :
        r \in { <<"refs", "tags", "v1">>,
                <<"refs", "heads", "gh-readonly-queue", "main">>,
                <<"refs", "heads", "gh-readonly-queue", "", "x">> } }

PullRequestInputs ==
    { [NoDelivery EXCEPT !.type = "pull_request", !.action = a, !.number = n,
                         !.base = b, !.headOwner = o, !.isPR = TRUE] :
        a \in {"opened", "synchronize", "closed"}, n \in {7, 12},
        b \in BranchInputs, o \in OwnerInputs }

\* A directive as parseDirective returns it, or its failure.
Directive(args, conds) == [ok |-> TRUE, Args |-> args, Conditions |-> conds]

BadDirective == [ok |-> FALSE, Args |-> <<>>, Conditions |-> <<>>]

Cond(k, op, v) == [Key |-> k, Op |-> op, Value |-> v]

\* Lines of a comment body: whether the line starts with "bender ", the rest
\* of the line, and what parseDirective makes of that rest.
Line(cmd, dir) == [bender |-> TRUE, command |-> cmd, dir |-> dir]

LineInputs ==
    { [bender |-> FALSE, command |-> "", dir |-> BadDirective],
      Line("run", Directive(<<"run">>, <<>>)),
      Line("run now", Directive(<<"run", "now">>, <<>>)),
      Line("run branch=main",
           Directive(<<"run">>, <<Cond("branch", "=", <<"main">>)>>)),
      Line("deploy", Directive(<<"deploy">>, <<>>)),
      Line("", Directive(<<>>, <<>>)),
      Line("run !", BadDirective) }

BodyInputs == UNION { [1..n -> LineInputs] : n \in 1..MaxLines }

\* Repository permission of the comment's author as GetPermissionLevel
\* reports it; "unavailable" stands for the call failing.
PermissionLevels == {"admin", "write", "read", "none", "unavailable"}

CommentInputs ==
    { [NoDelivery EXCEPT !.type = "issue_comment", !.action = "created",
                         !.body = b, !.permission = p, !.isPR = pr,
                         !.headOwner = o, !.number = 7, !.base = <<"dev">>] :
        b \in BodyInputs, p \in PermissionLevels, pr \in BOOLEAN,
        o \in OwnerInputs }
    \cup
    { [NoDelivery EXCEPT !.type = "issue_comment", !.action = "edited",
                         !.body = <<Line("run", Directive(<<"run">>, <<>>))>>,
                         !.permission = "admin", !.isPR = TRUE,
                         !.headOwner = "org", !.number = 7,
                         !.base = <<"dev">>] }

\* Deliveries whose signature does not verify.
UnsignedInputs ==
    { [d EXCEPT !.signed = FALSE] :
        d \in {x \in PushInputs \cup PullRequestInputs :
                 x.number \in {0, 7} /\ x.base \in {EmptyString, <<"main">>}}
              \cup {x \in CommentInputs : x.permission = "admin"} }

\* Metadata of a job file as parseMeta returns it, or its failure.
Meta(evs) == [ok |-> TRUE, Events |-> evs]

BadMeta == [ok |-> FALSE, Events |-> <<>>]

On(kind, conds) == [Event |-> kind, Conditions |-> conds]

\* Condition values used as regular expressions are made of plain pieces and
\* of the piece ".*"; the piece "(" makes the expression invalid.
MetaInputs ==
    { Meta(<<>>),
      Meta(<<On("push", <<>>)>>),
      Meta(<<On("pull_request", <<>>)>>),
      Meta(<<On("push", <<Cond("branch", "=", <<"main">>)>>)>>),
      Meta(<<On("push", <<Cond("branch", "!=", <<"main">>)>>)>>),
      Meta(<<On("push", <<Cond("branch", "~=", <<"gh-readonly-queue", "main", ".*">>)>>)>>),
      Meta(<<On("push", <<Cond("branch", "!~=", <<"ma">>)>>)>>),
      Meta(<<On("push", <<Cond("branch", "~=", <<"(">>)>>)>>),
      Meta(<<On("push", <<Cond("branch", "!~=", <<"(">>)>>)>>),
      Meta(<<On("push", <<Cond("tag", "=", EmptyString)>>)>>),
      Meta(<<On("push", <<Cond("tag", "~=", <<".*">>),
                          Cond("branch", "=", <<"dev">>)>>)>>),
      Meta(<<On("push", <<>>), On("push", <<Cond("branch", "=", <<"main">>)>>)>>),
      Meta(<<On("pull_request", <<Cond("branch", "=", <<"main">>)>>),
             On("push", <<Cond("branch", "=", <<"main">>)>>)>>) }

\* Entries of .github/ci: their type, whether fetching and decoding the file
\* succeeds, and the metadata in its content.
FileInputs ==
    { [Type |-> "file", fetch |-> TRUE, meta |-> m] : m \in MetaInputs \cup {BadMeta} }
    \cup
    { [Type |-> "dir", fetch |-> TRUE, meta |-> Meta(<<On("push", <<>>)>>)],
      [Type |-> "file", fetch |-> FALSE, meta |-> Meta(<<On("push", <<>>)>>)] }

\* A directory listing: entry i is named job<i>.sh.
Listing(fs) ==
    [ i \in 1..Len(fs) |->
        [ Name |-> <<"job" \o ToString(i), "sh">>, Type |-> fs[i].Type,
          fetch |-> fs[i].fetch, meta |-> fs[i].meta ] ]

DirInputs ==
    { [outcome |-> "ok", files |-> Listing(fs)] :
        fs \in UNION { [1..n -> FileInputs] : n \in 0..MaxFiles } }
    \cup
    { [outcome |-> o, files |-> <<>>] : o \in {"404", "error", "notdir"} }

\* ---------------------------------------------------------------------------
\* Webhook pipeline: pure functions
\* ---------------------------------------------------------------------------

\* strings.CutPrefix(s, p + "/"): whether s starts with the pieces p followed
\* by a separator, and what follows.
HasPrefix(s, p) == Len(s) > Len(p) /\ SubSeq(s, 1, Len(p)) = p

CutPrefix(s, p) == SubSeq(s, Len(p) + 1, Len(s))

\* The regular expression ^gh-readonly-queue/([^/]+)/ applied to a branch:
\* the first capture when it matches, the branch itself when it does not.
cacheBranch(branch) ==
    IF Len(branch) >= 3 /\ branch[1] = "gh-readonly-queue" /\ branch[2] # ""
    THEN <<branch[2]>>
    ELSE branch

\* fmt.Sprintf(prefix + "%s", s).
Sprintf(prefix, s) == <<prefix \o Head(s)>> \o Tail(s)

\* The Event built for a push (handleWebhook, case *github.PushEvent).
pushEvent(d) ==
    LET branch == CutPrefix(d.ref, <<"refs", "heads">>) IN
    [ Event |-> "push",
      Attributes |-> [k \in {"branch"} |-> branch],
      Cache |-> << Sprintf("branch-", cacheBranch(branch)),
                   Sprintf("branch-", DefaultBranch) >>,
      Trusted |-> TRUE,
      PullRequest |-> 0 ]

\* The Event built for a pull_request webhook.
pullRequestEvent(d) ==
    [ Event |-> "pull_request",
      Attributes |-> [k \in {"branch"} |-> d.base],
      Cache |-> << <<"pr-" \o ToString(d.number)>>,
                   Sprintf("branch-", d.base),
                   Sprintf("branch-", DefaultBranch) >>,
      Trusted |-> (d.headOwner = RepoOwner),
      PullRequest |-> d.number ]

\* handleCommand building its Event with Trusted set without the comparison.
runEventTrusted(d) ==
    [ Event |-> "pull_request",
      Attributes |-> [k \in {"branch"} |-> d.base],
      Cache |-> << <<"pr-" \o ToString(d.number)>>,
                   Sprintf("branch-", d.base),
                   Sprintf("branch-", DefaultBranch) >>,
      Trusted |-> TRUE,
      PullRequest |-> d.number ]

\* The Event built by the `run` command from the pull request it fetched.
runEvent(d) ==
    [ Event |-> "pull_request",
      Attributes |-> [k \in {"branch"} |-> d.base],
      Cache |-> << <<"pr-" \o ToString(d.number)>>,
                   Sprintf("branch-", d.base),
                   Sprintf("branch-", DefaultBranch) >>,
      Trusted |-> (d.headOwner = RepoOwner),
      PullRequest |-> d.number ]

\* regexp.MatchString("^" + p + "$", s): a piece ".*" of p stands for one or
\* more pieces of s, any other piece for itself.
RECURSIVE regexpMatch(_, _)
regexpMatch(p, s) ==
    IF p = <<>> THEN s = <<>>
    ELSE IF Head(p) = ".*"
    THEN \E k \in 1..Len(s) : regexpMatch(Tail(p), SubSeq(s, k + 1, Len(s)))
    ELSE s # <<>> /\ Head(s) = Head(p) /\ regexpMatch(Tail(p), Tail(s))

\* regexp.MatchString returns an error for an expression that does not compile.
regexpInvalid(p) == \E i \in 1..Len(p) : p[i] = "("

\* attributes[c.Key]: the zero value, the empty string, for a missing key.
Attribute(attributes, key) ==
    IF key \in DOMAIN attributes THEN attributes[key] ELSE EmptyString

\* DirectiveCondition.matches.
matches(c, attributes) ==
    LET v == Attribute(attributes, c.Key) IN
    CASE c.Op = "="   -> v = c.Value
      [] c.Op = "!="  -> v # c.Value
      [] c.Op = "~="  -> ~regexpInvalid(c.Value) /\ regexpMatch(c.Value, v)
      [] c.Op = "!~=" -> ~regexpInvalid(c.Value) /\ ~regexpMatch(c.Value, v)

\* The loop over meta.Events in handleEvent: the file matches when some
\* MetaEvent names the event's kind and all its conditions match.
matched(meta, event) ==
    \E i \in 1..Len(meta.Events) :
       /\ meta.Events[i].Event = event.Event
       /\ \A k \in 1..Len(meta.Events[i].Conditions) :
             matches(meta.Events[i].Conditions[k], event.Attributes)

\* removeExtension: the name up to its last ".".
removeExtension(name) ==
    IF Len(name) = 1 THEN name ELSE SubSeq(name, 1, Len(name) - 1)

\* handleCommandError without the test of the author's permission.
handleCommandErrorAnyone(l, d) ==
    CASE ~l.dir.ok -> "parse error"
      [] Len(l.dir.Args) = 0 -> "no command?"
      [] l.dir.Args[1] # "run" -> "unknown command"
      [] Len(l.dir.Args) # 1 \/ Len(l.dir.Conditions) # 0 ->
            "'run' takes no arguments"
      [] d.permission = "unavailable" -> "api error"
      [] ~d.isPR -> "This is not a pull request!"
      [] OTHER -> ""

\* The error handleCommand returns for a line before it fetches the pull
\* request, "" when there is none.
handleCommandError(l, d) ==
    CASE ~l.dir.ok -> "parse error"
      [] Len(l.dir.Args) = 0 -> "no command?"
      [] l.dir.Args[1] # "run" -> "unknown command"
      [] Len(l.dir.Args) # 1 \/ Len(l.dir.Conditions) # 0 ->
            "'run' takes no arguments"
      [] d.permission = "unavailable" -> "api error"
      [] d.permission \notin {"admin", "write"} -> "permission denied"
      [] ~d.isPR -> "This is not a pull request!"
      [] OTHER -> ""

\* ---------------------------------------------------------------------------
\* Webhook pipeline: handleWebhook, handleCommands, handleEvent
\* ---------------------------------------------------------------------------

\* The handler of POST /webhook answering 200 whatever handleWebhook returned.
WriteHeaderAlwaysOK(err) == 200

\* The handler of POST /webhook: an error of handleWebhook is answered 500,
\* nil 200.
WriteHeader(err) == IF err # "nil" THEN 500 ELSE 200

\* context.Background(): never cancelled, no deadline.
Background == "Background"

\* The context of handleWebhook: context.WithTimeout(Background, 60 s).
WebhookContext == "WithTimeout(Background, 60s)"

\* ctx.Done() is closed: the context of handleWebhook once its 60 s have passed
\* or the deferred cancel has run.
Done(ctx) == ctx = WebhookContext /\ (hook.expired \/ hook.pc = "done")

\* What a GitHub call made with the context of handleWebhook can return.
APIOutcome == IF hook.expired THEN {FALSE} ELSE BOOLEAN

\* The delivery as the calls of handleCommand see it: with an expired context
\* GetPermissionLevel returns an error.
WithContext(d) == IF hook.expired THEN [d EXCEPT !.permission = "unavailable"] ELSE d

\* The 60 s of the context of handleWebhook pass while it is still at work.
Deadline ==
    /\ hook.pc # "done"
    /\ ~hook.expired
    /\ hook' = [hook EXCEPT !.expired = TRUE]
    /\ UNCHANGED <<delivery, repoDir, spawnedJobs, replies, executorVars, sandboxVars,
                   serverVars, parserVars, cgroupVars>>

\* handleWebhook returns err and the handler answers.
Finish(err) ==
    hook' = [hook EXCEPT !.pc = "done", !.err = err, !.response = WriteHeader(err)]

\* handleEvent returned nil: the loop over events goes on or ends.
NextEvent ==
    IF hook.ev < Len(hook.events)
    THEN hook' = [hook EXCEPT !.pc = "event", !.ev = @ + 1, !.jobs = <<>>]
    ELSE Finish("nil")

\* Once the events are built handleWebhook returns when there are none.
Dispatch(events) ==
    IF events = <<>>
    THEN Finish("nil")
    ELSE hook' = [hook EXCEPT !.pc = "event", !.ev = 1, !.events = events]

\* handleWebhook up to the end of its switch: signature check, client
\* creation, then the event of a push or of a pull_request webhook.
HandleWebhook ==
    /\ hook.pc = "received"
    /\ IF ~delivery.signed
       THEN Finish("nil")
       ELSE \E clientOk \in BOOLEAN :
              IF ~clientOk THEN Finish("error")
              ELSE CASE delivery.type = "push" ->
                          IF  /\ HasPrefix(delivery.ref, <<"refs", "heads">>)
                              /\ delivery.headCommit
                          THEN Dispatch(<<pushEvent(delivery)>>)
                          ELSE Finish("nil")
                     [] delivery.type = "pull_request" ->
                          IF delivery.action \in {"opened", "synchronize"}
                          THEN Dispatch(<<pullRequestEvent(delivery)>>)
                          ELSE Finish("nil")
                     [] delivery.type = "issue_comment" ->
                          IF delivery.action = "created"
                          THEN hook' = [hook EXCEPT !.pc = "commands"]
                          ELSE Finish("nil")
                     [] OTHER -> Finish("nil")
    /\ UNCHANGED <<delivery, repoDir, spawnedJobs, replies, executorVars, sandboxVars,
                   serverVars, parserVars, cgroupVars>>

\* HandleCommand with the Event of the `run` command marked trusted whoever
\* owns the head repository.
HandleCommandTrustsAll ==
    /\ hook.pc = "commands"
    /\ hook.line <= Len(delivery.body)
    /\ LET l   == delivery.body[hook.line]
           err == handleCommandError(l, WithContext(delivery))
           failed(e) == [hook EXCEPT !.line = @ + 1,
                           !.errors = Append(@, [command |-> l.command, error |-> e])]
       IN  IF ~l.bender
           THEN hook' = [hook EXCEPT !.line = @ + 1]
           ELSE IF err # ""
           THEN hook' = failed(err)
           ELSE \E getOk \in APIOutcome :
                  hook' = IF getOk
                          THEN [hook EXCEPT !.line = @ + 1,
                                  !.events = Append(@, runEventTrusted(delivery))]
                          ELSE failed("api error")
    /\ UNCHANGED <<delivery, repoDir, spawnedJobs, replies, executorVars, sandboxVars,
                   serverVars, parserVars, cgroupVars>>

\* HandleCommand leaving the loop of handleCommands at the first command that
\* fails.
HandleCommandStopsAtError ==
    /\ hook.pc = "commands"
    /\ hook.line <= Len(delivery.body)
    /\ LET l   == delivery.body[hook.line]
           err == handleCommandError(l, WithContext(delivery))
           failed(e) == [hook EXCEPT !.line = Len(delivery.body) + 1,
                           !.errors = Append(@, [command |-> l.command, error |-> e])]
       IN  IF ~l.bender
           THEN hook' = [hook EXCEPT !.line = @ + 1]
           ELSE IF err # ""
           THEN hook' = failed(err)
           ELSE \E getOk \in APIOutcome :
                  hook' = IF getOk
                          THEN [hook EXCEPT !.line = @ + 1,
                                  !.events = Append(@, runEvent(delivery))]
                          ELSE failed("api error")
    /\ UNCHANGED <<delivery, repoDir, spawnedJobs, replies, executorVars, sandboxVars,
                   serverVars, parserVars, cgroupVars>>

\* One iteration of the loop of handleCommands: a line that starts with
\* "bender " is handed to handleCommand, whose error is kept for the reply.
HandleCommand ==
    /\ hook.pc = "commands"
    /\ hook.line <= Len(delivery.body)
    /\ LET l   == delivery.body[hook.line]
           err == handleCommandError(l, WithContext(delivery))
           failed(e) == [hook EXCEPT !.line = @ + 1,
                           !.errors = Append(@, [command |-> l.command, error |-> e])]
       IN  IF ~l.bender
           THEN hook' = [hook EXCEPT !.line = @ + 1]
           ELSE IF err # ""
           THEN hook' = failed(err)
           ELSE \E getOk \in APIOutcome :
                  hook' = IF getOk
                          THEN [hook EXCEPT !.line = @ + 1,
                                  !.events = Append(@, runEvent(delivery))]
                          ELSE failed("api error")
    /\ UNCHANGED <<delivery, repoDir, spawnedJobs, replies, executorVars, sandboxVars,
                   serverVars, parserVars, cgroupVars>>

\* The end of handleCommands: the accumulated errors are posted as one reply
\* comment; back in handleWebhook the events, if any, are handled.
PostErrors ==
    /\ hook.pc = "commands"
    /\ hook.line > Len(delivery.body)
    /\ replies' = IF hook.errors # <<>> THEN Append(replies, hook.errors)
                  ELSE replies
    /\ IF hook.events = <<>>
       THEN Finish("nil")
       ELSE hook' = [hook EXCEPT !.pc = "event", !.ev = 1]
    /\ UNCHANGED <<delivery, repoDir, spawnedJobs, executorVars, sandboxVars,
                   serverVars, parserVars, cgroupVars>>

\* handleEvent: GetContents of .github/ci at the event's SHA.
GetDir ==
    /\ hook.pc = "event"
    /\ CASE hook.expired \/ repoDir.outcome = "error" -> Finish("error")
         [] repoDir.outcome \in {"404", "notdir"} -> NextEvent
         [] OTHER -> hook' = [hook EXCEPT !.pc = "files", !.file = 1,
                                          !.jobs = <<>>]
    /\ UNCHANGED <<delivery, repoDir, spawnedJobs, replies, executorVars, sandboxVars,
                   serverVars, parserVars, cgroupVars>>

\* A Job started with the context of handleWebhook in place of a fresh one.
NewJobInherits(f) ==
    [ Name |-> removeExtension(f.Name), Script |-> f.Name, event |-> hook.ev,
      ctx |-> WebhookContext ]

\* The Job built for a matching file, with the context its runJob is started
\* with at the end of handleEvent: context.Background().
NewJob(f) ==
    [ Name |-> removeExtension(f.Name), Script |-> f.Name, event |-> hook.ev,
      ctx |-> Background ]

\* ExamineFile without the break: one job for every MetaEvent that matches.
ExamineFilePerEvent ==
    /\ hook.pc = "files"
    /\ hook.file <= Len(repoDir.files)
    /\ LET f     == repoDir.files[hook.file]
           event == hook.events[hook.ev]
           hits  == { i \in 1..Len(f.meta.Events) :
                        matched(Meta(<<f.meta.Events[i]>>), event) }
       IN  IF f.Type # "file"
           THEN hook' = [hook EXCEPT !.file = @ + 1]
           ELSE IF hook.expired \/ ~f.fetch
           THEN Finish("error")
           ELSE IF ~f.meta.ok
           THEN hook' = [hook EXCEPT !.file = @ + 1]
           ELSE hook' = [hook EXCEPT !.file = @ + 1,
                           !.jobs = @ \o [i \in 1..Cardinality(hits) |-> NewJob(f)]]
    /\ UNCHANGED <<delivery, repoDir, spawnedJobs, replies, executorVars, sandboxVars,
                   serverVars, parserVars, cgroupVars>>

\* ExamineFile starting the job of a matching file at once.
ExamineFileSpawnsAtOnce ==
    /\ hook.pc = "files"
    /\ hook.file <= Len(repoDir.files)
    /\ LET f     == repoDir.files[hook.file]
           event == hook.events[hook.ev]
       IN  IF f.Type # "file"
           THEN hook' = [hook EXCEPT !.file = @ + 1] /\ UNCHANGED spawnedJobs
           ELSE IF hook.expired \/ ~f.fetch
           THEN Finish("error") /\ UNCHANGED spawnedJobs
           ELSE IF ~f.meta.ok
           THEN hook' = [hook EXCEPT !.file = @ + 1] /\ UNCHANGED spawnedJobs
           ELSE /\ hook' = [hook EXCEPT !.file = @ + 1]
                /\ spawnedJobs' = IF matched(f.meta, event)
                                  THEN Append(spawnedJobs, NewJob(f))
                                  ELSE spawnedJobs
    /\ UNCHANGED <<delivery, repoDir, replies, executorVars, sandboxVars,
                   serverVars, parserVars, cgroupVars>>

\* One iteration of the loop over the directory: entries that are not files
\* are skipped, a failing fetch or decode ends handleEvent with an error, a
\* file whose metadata does not parse is skipped, a matching file adds a job.
ExamineFile ==
    /\ hook.pc = "files"
    /\ hook.file <= Len(repoDir.files)
    /\ LET f     == repoDir.files[hook.file]
           event == hook.events[hook.ev]
       IN  IF f.Type # "file"
           THEN hook' = [hook EXCEPT !.file = @ + 1]
           ELSE IF hook.expired \/ ~f.fetch
           THEN Finish("error")
           ELSE IF ~f.meta.ok
           THEN hook' = [hook EXCEPT !.file = @ + 1]
           ELSE hook' = [hook EXCEPT !.file = @ + 1,
                           !.jobs = IF matched(f.meta, event)
                                    THEN Append(@, NewJob(f)) ELSE @]
    /\ UNCHANGED <<delivery, repoDir, spawnedJobs, replies, executorVars, sandboxVars,
                   serverVars, parserVars, cgroupVars>>

\* The loop at the end of handleEvent: go s.runJob for every job collected.
SpawnJobs ==
    /\ hook.pc = "files"
    /\ hook.file > Len(repoDir.files)
    /\ spawnedJobs' = spawnedJobs \o hook.jobs
    /\ NextEvent
    /\ UNCHANGED <<delivery, repoDir, replies, executorVars, sandboxVars,
                   serverVars, parserVars, cgroupVars>>

\* ---------------------------------------------------------------------------
\* Webhook pipeline: specification
\* ---------------------------------------------------------------------------

\* The executor while no job has been spawned.
idleScenario ==
    [ spawned |-> {}, job |-> [j \in Jobs |-> plainJob], cache |-> emptyCache,
      sandbox |-> FALSE, faults |-> {} ]

simpleDir ==
    [ outcome |-> "ok",
      files |-> Listing(<< [Type |-> "file", fetch |-> TRUE,
                            meta |-> Meta(<<On("push", <<>>)>>)],
                           [Type |-> "file", fetch |-> TRUE,
                            meta |-> Meta(<<On("pull_request", <<>>)>>)] >>) ]

\* Every delivery against a repository with one push job and one pull-request
\* job.
EventScenarios ==
    { [delivery |-> d, repoDir |-> simpleDir] :
        d \in PushInputs \cup PullRequestInputs \cup CommentInputs
              \cup UnsignedInputs }

\* A few deliveries against every .github/ci.
MatchScenarios ==
    { [delivery |-> d, repoDir |-> r] :
        d \in { x \in PushInputs \cup PullRequestInputs :
                  /\ x.headCommit \/ x.type = "pull_request"
                  /\ x.ref \in { EmptyString, <<"refs", "heads", "main">>,
                                 <<"refs", "heads", "dev">>,
                                 MergeQueueRef(<<"main">>) }
                  /\ x.action \in {"", "opened"}
                  /\ x.number \in {0, 7}
                  /\ x.base \in {EmptyString, <<"main">>}
                  /\ x.headOwner \in {"", "org"} },
        r \in DirInputs }

PipelineScenarios == EventScenarios \cup MatchScenarios

PipelineInit ==
    /\ \E sc \in PipelineScenarios :
          /\ delivery = sc.delivery
          /\ repoDir = sc.repoDir
    /\ hook = NewHook
    /\ spawnedJobs = <<>>
    /\ replies = <<>>
    /\ ExecutorInit(idleScenario)
    /\ SandboxIdle
    /\ OthersIdle

PipelineNext ==
    \/ HandleWebhook
    \/ Deadline
    \/ HandleCommand
    \/ PostErrors
    \/ GetDir
    \/ ExamineFile
    \/ SpawnJobs

PipelineSpec == PipelineInit /\ [][PipelineNext]_vars

\* ---------------------------------------------------------------------------
\* Network sandbox: inputs
\* ---------------------------------------------------------------------------

\* The stub resolver's address, the one element the set `allow` starts with.
StubAddr == "127.0.0.93"

\* Config.NetSandbox.AllowedDomains values.
AllowedDomainInputs ==
    { << <<"github", "com">> >>,
      << <<"github", "com">>, <<"*", "example", "com">> >>,
      << <<"*", "example", "com", "">> >> }

\* Query names, fully qualified as the DNS library hands them over.
NameInputs ==
    { <<"github", "com", "">>, <<"api", "github", "com", "">>,
      <<"example", "com", "">>, <<"a", "example", "com", "">>,
      <<"evilexample", "com", "">>, <<"evil", "org", "">>,
      <<"x", "a", "example", "com", "">>, <<"example", "com", "evil", "">> }

IP(family, addr) == [family |-> family, addr |-> addr]

\* net.LookupHost through the host resolver: failure, or IPv4 and IPv6
\* addresses.
LookupHost(name) ==
    CASE name = <<"github", "com", "">> ->
           [ok |-> TRUE, ips |-> <<IP("ip4", "140.82.1.1")>>]
      [] name = <<"api", "github", "com", "">> ->
           [ok |-> FALSE, ips |-> <<>>]
      [] name = <<"example", "com", "">> ->
           [ok |-> TRUE, ips |-> <<IP("ip4", "93.184.0.1"), IP("ip6", "2606::1")>>]
      [] name = <<"a", "example", "com", "">> ->
           [ok |-> TRUE, ips |-> <<IP("ip4", "93.184.0.2")>>]
      [] name = <<"evilexample", "com", "">> ->
           [ok |-> TRUE, ips |-> <<IP("ip4", "6.6.6.6")>>]
      [] OTHER ->
           [ok |-> TRUE, ips |-> <<IP("ip4", "6.6.6.7")>>]

Question(name, qtype) == [Name |-> name, Qtype |-> qtype]

\* DNS messages: one question of type A or AAAA, or two questions of type A.
MessageInputs ==
    { <<Question(n, "A")>> : n \in NameInputs }
    \cup
    { <<Question(n, "AAAA")>> :
        n \in { <<"github", "com", "">>, <<"evil", "org", "">> } }
    \cup
    { <<Question(n1, "A"), Question(n2, "A")>> :
        n1 \in { <<"github", "com", "">>, <<"evil", "org", "">> },
        n2 \in { <<"example", "com", "">>, <<"evil", "org", "">> } }

\* /proc/self/cgroup of the supervisor at start-up: the root cgroup, or a
\* service's cgroup.
CgroupRootInputs == { <<>>, <<"system.slice", "bender.service">> }

\* Cgroup.bender and Cgroup.jobs of initCgroup.
BenderCgroup == cgroupRoot \o <<"bender">>

JobsCgroup == cgroupRoot \o <<"jobs">>

\* Cgroups a packet's socket may belong to: the one the supervisor starts in
\* and the one initCgroup moves it to, the jobs group and a container's group
\* under it, and the group of a container created with
\* oci.WithNamespacedCgroup in the containerd namespace "bender".
CgroupInputs ==
    { cgroupRoot, BenderCgroup, JobsCgroup, JobsCgroup \o <<"job-a1">>,
      <<"bender", "job-a1">> }

AddrInputs == { StubAddr, "140.82.1.1", "6.6.6.6" }

\* ---------------------------------------------------------------------------
\* Network sandbox: stub resolver
\* ---------------------------------------------------------------------------

\* strings.HasSuffix(s, ".") and the trailing dot domainMatches adds.
HasDotSuffix(s) == Len(s) >= 2 /\ s[Len(s)] = ""

WithDot(s) == IF HasDotSuffix(s) THEN s ELSE Append(s, "")

\* domainMatches: equal, "*." + domain equal to the pattern, or the pattern
\* starts with "*." and the domain ends with the pattern less its "*".
domainMatches(domain, pattern) ==
    LET p == WithDot(pattern)
        d == WithDot(domain)
    IN  \/ d = p
        \/ <<"*">> \o d = p
        \/ /\ Len(p) >= 2 /\ p[1] = "*"
           /\ Len(d) >= Len(p)
           /\ SubSeq(d, Len(d) - Len(p) + 2, Len(d)) = Tail(p)

domainAllowed(domain) ==
    \E i \in 1..Len(allowedDomains) : domainMatches(domain, allowedDomains[i])

\* The addresses of a lookup result that are IPv4: `nft add element` into a
\* set of type ipv4_addr and dns.NewRR of an A record both fail for the others.
IPv4(ips) == SelectSeq(ips, LAMBDA ip : ip.family = "ip4")

Addrs(ips) == {ips[i].addr : i \in 1..Len(ips)}

Records(name, ips) == [i \in 1..Len(ips) |-> [Name |-> name, A |-> ips[i].addr]]

\* handleDNSQuery without the test of the allow-list.
RECURSIVE handleDNSQueryOpen(_, _, _)
handleDNSQueryOpen(qs, m, nftOk) ==
    IF qs = <<>> THEN m
    ELSE IF Head(qs).Qtype # "A" THEN handleDNSQueryOpen(Tail(qs), m, nftOk)
    ELSE LET name   == Head(qs).Name
             res    == LookupHost(name)
             looked == [m EXCEPT !.lookups = Append(@, name)]
         IN  IF ~res.ok
             THEN [looked EXCEPT !.rcode = "SERVFAIL"]
             ELSE handleDNSQueryOpen(Tail(qs),
                    [looked EXCEPT
                       !.answer = @ \o Records(name, IPv4(res.ips)),
                       !.added = IF nftOk THEN @ \cup Addrs(IPv4(res.ips)) ELSE @],
                    nftOk)

\* handleDNSQuery: the loop over the questions. A question of type A for a
\* name that is not allowed ends it with NXDOMAIN, a failing lookup with
\* SERVFAIL; otherwise every address is added to the set `allow` (tryExec
\* only logs a failure of nft) and to the answer.
RECURSIVE handleDNSQuery(_, _, _)
handleDNSQuery(qs, m, nftOk) ==
    IF qs = <<>> THEN m
    ELSE IF Head(qs).Qtype # "A" THEN handleDNSQuery(Tail(qs), m, nftOk)
    ELSE IF ~domainAllowed(Head(qs).Name) THEN [m EXCEPT !.rcode = "NXDOMAIN"]
    ELSE LET name   == Head(qs).Name
             res    == LookupHost(name)
             looked == [m EXCEPT !.lookups = Append(@, name)]
         IN  IF ~res.ok
             THEN [looked EXCEPT !.rcode = "SERVFAIL"]
             ELSE handleDNSQuery(Tail(qs),
                    [looked EXCEPT
                       !.answer = @ \o Records(name, IPv4(res.ips)),
                       !.added = IF nftOk THEN @ \cup Addrs(IPv4(res.ips)) ELSE @],
                    nftOk)

\* setupNftables: the table is replaced by a fresh one whose set `allow`
\* holds the stub resolver's address. netRun starts the DNS server after it.
SetupNftables ==
    /\ ~nft.installed
    /\ nft' = [installed |-> TRUE, allow |-> {StubAddr}]
    /\ UNCHANGED <<allowedDomains, cgroupRoot, dns, packet, executorVars, pipelineVars,
                   serverVars, parserVars, cgroupVars>>

\* handleDNSRequest: the reply to one request, and the addresses its handling
\* added to the set.
HandleDNSRequest ==
    /\ nft.installed
    /\ \E msg \in MessageInputs, nftOk \in BOOLEAN :
         LET m == handleDNSQuery(msg,
                    [NoRequest EXCEPT !.msg = msg, !.rcode = "NOERROR"], nftOk)
         IN  /\ dns' = m
             /\ nft' = [nft EXCEPT !.allow = @ \cup m.added]
    /\ UNCHANGED <<allowedDomains, cgroupRoot, packet, executorVars, pipelineVars,
                   serverVars, parserVars, cgroupVars>>

\* ---------------------------------------------------------------------------
\* Network sandbox: packet filter
\* ---------------------------------------------------------------------------

\* The cgroup named by the rule `socket cgroupv2 level 1 "bender"`.
GatedCgroup == <<"bender">>

\* The rule matches a socket whose cgroup has that ancestor at level 1.
gated(cgroup) == Len(cgroup) >= 1 /\ SubSeq(cgroup, 1, 1) = GatedCgroup

\* Chain bender-output for an IPv4 packet.
benderOutput(daddr, proto) ==
    IF daddr \in nft.allow THEN "accept"
    ELSE IF proto = "tcp" THEN "reject with tcp reset"
    ELSE "reject with icmp host-prohibited"

\* An IPv4 packet leaves a socket: chain output, policy accept, hands the
\* packets of the gated cgroup to chain bender-output.
Output ==
    \E cgroup \in CgroupInputs, daddr \in AddrInputs, proto \in {"tcp", "udp"} :
       /\ packet' =
            [ cgroup |-> cgroup, daddr |-> daddr, proto |-> proto,
              listed |-> daddr \in nft.allow,
              gated |-> nft.installed /\ gated(cgroup),
              verdict |-> IF nft.installed /\ gated(cgroup)
                          THEN benderOutput(daddr, proto) ELSE "accept" ]
       /\ UNCHANGED <<allowedDomains, cgroupRoot, nft, dns, executorVars, pipelineVars,
                   serverVars, parserVars, cgroupVars>>

\* ---------------------------------------------------------------------------
\* Network sandbox: specification
\* ---------------------------------------------------------------------------

SandboxInit ==
    /\ allowedDomains \in AllowedDomainInputs
    /\ cgroupRoot \in CgroupRootInputs
    /\ nft = [installed |-> FALSE, allow |-> {}]
    /\ dns = NoRequest
    /\ packet = NoPacket
    /\ ExecutorInit(idleScenario)
    /\ PipelineIdle
    /\ OthersIdle

SandboxNext ==
    \/ SetupNftables
    \/ HandleDNSRequest
    \/ Output

SandboxSpec == SandboxInit /\ [][SandboxNext]_vars

\* ---------------------------------------------------------------------------
\* HTTP endpoints: inputs
\* ---------------------------------------------------------------------------

\* Lines a job leaves in its log.
MaxLogLines == 2

LogLineInputs == {"output", "<b>"}

Lower ==
    { "a", "b", "c", "d", "e", "f", "g", "h", "i", "j", "k", "l", "m", "n",
      "o", "p", "q", "r", "s", "t", "u", "v", "w", "x", "y", "z" }

Digits == {"0", "1", "2", "3", "4", "5", "6", "7", "8", "9"}

\* The jobID parameter of a request, as its characters: the two job ids, an
\* id no job has, and texts that are no job id.
IdInputs ==
    { <<"a", "1">>, <<"b", "2">>, <<"c", "3">>, <<"A", "1">>, <<".", ".">>,
      <<"a", "1", "\n">>, <<"a", "-", "1">>, <<>> }

\* The characters of an id as one string.
RECURSIVE String(_)
String(cs) == IF cs = <<>> THEN "" ELSE Head(cs) \o String(Tail(cs))

\* validJobID accepting every text.
validJobIDAny(id) == TRUE

\* validJobID: regexp.MatchString("^[a-z0-9]+$", id).
validJobID(id) ==
    /\ Len(id) >= 1
    /\ \A i \in 1..Len(id) : id[i] \in Lower \cup Digits

\* html.EscapeString of a log line.
EscapeString(line) == IF line = "<b>" THEN "&lt;b&gt;" ELSE line

\* logs/<id> as os.Open finds it.
LogFile(id) ==
    IF String(id) \in Jobs THEN logs[String(id)]
    ELSE [exists |-> FALSE, lines |-> <<>>]

isJobRunning(id) == String(id) \in runningJobs

\* What no step of the HTTP endpoints or of a job seen from them changes.
serverFrame ==
    <<config, job, faults, run, trace, commits, fsVars, gc, pipelineVars,
      sandboxVars, parserVars, cgroupVars>>

\* ---------------------------------------------------------------------------
\* HTTP endpoints: runJob as the log endpoint sees it
\* ---------------------------------------------------------------------------

\* s.runningJobs[job.ID] = struct{}{}
JobRegisters(j) ==
    /\ j \notin runningJobs /\ ~logs[j].exists
    /\ runningJobs' = runningJobs \cup {j}
    /\ UNCHANGED <<logs, request, serverFrame>>

\* os.Create(logs/<id>)
JobCreatesLog(j) ==
    /\ j \in runningJobs /\ ~logs[j].exists
    /\ logs' = [logs EXCEPT ![j] = [exists |-> TRUE, lines |-> <<>>]]
    /\ UNCHANGED <<runningJobs, request, serverFrame>>

\* The container's output and the "run failed" line go to the log.
JobWrites(j) ==
    /\ j \in runningJobs /\ logs[j].exists
    /\ Len(logs[j].lines) < MaxLogLines
    /\ \E line \in LogLineInputs :
         logs' = [logs EXCEPT ![j].lines = Append(@, line)]
    /\ UNCHANGED <<runningJobs, request, serverFrame>>

\* The deferred delete(s.runningJobs, job.ID)
JobReturns(j) ==
    /\ j \in runningJobs
    /\ runningJobs' = runningJobs \ {j}
    /\ UNCHANGED <<logs, request, serverFrame>>

\* ---------------------------------------------------------------------------
\* HTTP endpoints: handlers
\* ---------------------------------------------------------------------------

Answer(endpoint, id, status, end) ==
    [NoHTTP EXCEPT !.endpoint = endpoint, !.jobID = id, !.pc = "closed",
                   !.status = status, !.end = end]

\* HandleJobArtifacts: the id is validated, then http.FileServer serves the
\* file of artifacts/<id>/ the path names.
HandleJobArtifacts ==
    /\ request.pc \in {"idle", "closed"}
    /\ \E id \in IdInputs :
         IF ~validJobID(id)
         THEN request' = Answer("artifacts", id, 404, "invalid")
         ELSE LET found == String(id) \in Jobs /\ artifacts[String(id)] IN
              request' =
                 [Answer("artifacts", id, IF found THEN 200 ELSE 404,
                         IF found THEN "served" ELSE "notfound")
                    EXCEPT !.fs = <<<<"artifacts", id>>>>]
    /\ UNCHANGED <<runningJobs, logs, serverFrame>>

\* HandleJobLogs up to its loop: the id is validated, the log opened, the
\* headers set, the padding written when the job is running, and the head of
\* the document written.
HandleJobLogs ==
    /\ request.pc \in {"idle", "closed"}
    /\ \E id \in IdInputs :
         IF ~validJobID(id)
         THEN request' = Answer("logs", id, 404, "invalid")
         ELSE IF ~LogFile(id).exists
         THEN request' = [Answer("logs", id, 404, "notfound")
                            EXCEPT !.fs = <<<<"logs", id>>>>]
         ELSE request' =
                 [NoHTTP EXCEPT !.endpoint = "logs", !.jobID = id,
                                !.pc = "streaming", !.status = 200,
                                !.fs = <<<<"logs", id>>>>,
                                !.padded = isJobRunning(id)]
    /\ UNCHANGED <<runningJobs, logs, serverFrame>>

\* One iteration of the loop of HandleJobLogs that closes the stream at
\* end-of-file whether the job is running or not.
IterationNoWait(readErr, writeErr) ==
    /\ request.pc = "streaming"
    /\ LET avail == Len(LogFile(request.jobID).lines) - request.pos IN
       IF readErr
       THEN request' = [request EXCEPT !.pc = "closed", !.end = "readError"]
       ELSE IF avail = 0
       THEN request' = [request EXCEPT !.pc = "closed", !.end = "eof",
                                       !.last = "eof"]
       ELSE IF writeErr
       THEN request' = [request EXCEPT !.pc = "closed", !.end = "writeError"]
       ELSE \E n \in 1..avail :
              request' =
                 [request EXCEPT
                    !.pos = @ + n,
                    !.body = @ \o [i \in 1..n |->
                                     EscapeString(LogFile(request.jobID).lines[request.pos + i])],
                    !.last = "data"]
    /\ UNCHANGED <<runningJobs, logs, serverFrame>>

\* One iteration of the loop of HandleJobLogs up to its branch: f.Read; an
\* error other than io.EOF ends the request; with nothing read (n == 0) the
\* handler goes on to ask whether the job is running; what was read is written
\* escaped, and a failed write ends the request.
Iteration(readErr, writeErr) ==
    /\ request.pc = "streaming"
    /\ LET avail == Len(LogFile(request.jobID).lines) - request.pos IN
       IF readErr
       THEN request' = [request EXCEPT !.pc = "closed", !.end = "readError"]
       ELSE IF avail = 0
       THEN request' = [request EXCEPT !.pc = "eof"]
       ELSE IF writeErr
       THEN request' = [request EXCEPT !.pc = "closed", !.end = "writeError"]
       ELSE \E n \in 1..avail :
              request' =
                 [request EXCEPT
                    !.pos = @ + n,
                    !.body = @ \o [i \in 1..n |->
                                     EscapeString(LogFile(request.jobID).lines[request.pos + i])],
                    !.last = "data"]
    /\ UNCHANGED <<runningJobs, logs, serverFrame>>

ReadLog == \E readErr \in BOOLEAN, writeErr \in BOOLEAN : Iteration(readErr, writeErr)

\* The branch n == 0 of the loop: s.isJobRunning takes the lock of the registry
\* after the read has returned; the handler returns when the job is not
\* running and otherwise flushes, sleeps 500 ms and reads again.
NothingRead ==
    /\ request.pc = "eof"
    /\ IF ~isJobRunning(request.jobID)
       THEN request' = [request EXCEPT !.pc = "closed", !.end = "eof",
                                       !.last = "eof"]
       ELSE request' = [request EXCEPT !.pc = "streaming", !.last = "sleep",
                                       !.slept = TRUE]
    /\ UNCHANGED <<runningJobs, logs, serverFrame>>

\* ---------------------------------------------------------------------------
\* HTTP endpoints: specification
\* ---------------------------------------------------------------------------

ServerInit ==
    /\ ExecutorInit(idleScenario)
    /\ PipelineIdle
    /\ SandboxIdle
    /\ ServerIdle
    /\ ParserIdle
    /\ CgroupIdle

ServerNext ==
    \/ \E j \in Jobs : JobRegisters(j)
    \/ \E j \in Jobs : JobCreatesLog(j)
    \/ \E j \in Jobs : JobWrites(j)
    \/ \E j \in Jobs : JobReturns(j)
    \/ HandleJobArtifacts
    \/ HandleJobLogs
    \/ ReadLog
    \/ NothingRead

\* The loop of a handler that meets no I/O error keeps running.
ServerSpec ==
    /\ ServerInit /\ [][ServerNext]_vars
    /\ WF_vars(Iteration(FALSE, FALSE)) /\ WF_vars(NothingRead)

\* ---------------------------------------------------------------------------
\* Directive parser: texts
\* ---------------------------------------------------------------------------

\* Texts are sequences of characters. The characters a bare item stops at:
\* [^ !~=;\t\n"\\] of the regular expression `item`.
Special == {" ", "!", "~", "=", ";", "\t", "\n", "\"", "\\"}

\* [ \t\n] of the regular expression `whitespace`.
Whitespace == {" ", "\t", "\n"}

StartsWith(t, p) == Len(t) >= Len(p) /\ SubSeq(t, 1, Len(p)) = p

Drop(t, n) == SubSeq(t, n + 1, Len(t))

\* The length of the longest prefix of t whose characters are all in S.
PrefixLen(t, S) ==
    LET stops == {i \in 1..Len(t) : t[i] \notin S} IN
    IF stops = {} THEN Len(t)
    ELSE (CHOOSE i \in stops : \A k \in stops : i <= k) - 1

\* ^[ \t\n]+ : the length of the match, 0 when there is none.
whitespace(t) == PrefixLen(t, Whitespace)

\* "(?:\\.|[^\\"])*" from the opening quote t[1]: the index of the closing
\* quote, reading on from index i, or 0 when the text ends first or a
\* backslash is followed by a newline or by nothing.
RECURSIVE quotedEnd(_, _)
quotedEnd(t, i) ==
    IF i > Len(t) THEN 0
    ELSE IF t[i] = "\"" THEN i
    ELSE IF t[i] = "\\"
    THEN IF i + 1 <= Len(t) /\ t[i + 1] # "\n" THEN quotedEnd(t, i + 2) ELSE 0
    ELSE quotedEnd(t, i + 1)

\* ^item: the quoted alternative when it matches, else the longest run of
\* characters that are not special, which may be empty. It always matches;
\* the value is the length of the match.
item(t) ==
    IF t # <<>> /\ t[1] = "\"" /\ quotedEnd(t, 2) # 0
    THEN quotedEnd(t, 2)
    ELSE PrefixLen(t, {t[i] : i \in 1..Len(t)} \ Special)

\* ^(=|!=|~=|!~=): the operator matched, <<>> when there is none.
operator(t) ==
    IF StartsWith(t, <<"=">>) THEN <<"=">>
    ELSE IF StartsWith(t, <<"!", "=">>) THEN <<"!", "=">>
    ELSE IF StartsWith(t, <<"~", "=">>) THEN <<"~", "=">>
    ELSE IF StartsWith(t, <<"!", "~", "=">>) THEN <<"!", "~", "=">>
    ELSE <<>>

\* ^item(=|!=|~=|!~=)item : the submatches and the length of the match.
condition(t) ==
    LET k    == item(t)
        op   == operator(Drop(t, k))
        rest == Drop(t, k + Len(op))
        v    == item(rest)
    IN  [ ok |-> op # <<>>, key |-> SubSeq(t, 1, k), op |-> op,
          value |-> SubSeq(rest, 1, v), len |-> k + Len(op) + v ]

\* The character an escape stands for.
Escapes == {"\\", "\"", "n", "r", "t"}

Unescaped(c) ==
    CASE c = "n" -> "\n" [] c = "r" -> "\r" [] c = "t" -> "\t" [] OTHER -> c

\* The loop of unstring over s[1 .. len-2] (here the indices 2 .. Len - 1).
RECURSIVE unescape(_, _, _)
unescape(s, i, out) ==
    IF i > Len(s) - 1 THEN [err |-> "none", out |-> out]
    ELSE IF s[i] = "\\"
    THEN IF s[i + 1] \in Escapes
         THEN unescape(s, i + 2, Append(out, Unescaped(s[i + 1])))
         ELSE [err |-> "invalid escape sequence", out |-> <<>>]
    ELSE unescape(s, i + 1, Append(out, s[i]))

\* unstring leaving the escapes of a quoted item as they are written.
unstringRaw(s) ==
    IF s = <<>> \/ s[1] # "\"" THEN [err |-> "none", out |-> s]
    ELSE [err |-> "none", out |-> SubSeq(s, 2, Len(s) - 1)]

\* unstring: an item that does not start with a quote is returned as it is;
\* otherwise the quotes are dropped and the escapes replaced.
unstring(s) ==
    IF s = <<>> \/ s[1] # "\"" THEN [err |-> "none", out |-> s]
    ELSE unescape(s, 2, <<>>)

\* ---------------------------------------------------------------------------
\* Directive parser: parseDirective and parseMeta
\* ---------------------------------------------------------------------------

Condition(key, op, value) == [Key |-> key, Op |-> op, Value |-> value]

\* What parseDirective returns: a Directive and no error, or no Directive and
\* an error. `returned` is FALSE when the loop never ends.
Parsed(args, conditions) ==
    [returned |-> TRUE, err |-> "none", Args |-> args, Conditions |-> conditions]

Failed(err) ==
    [returned |-> TRUE, err |-> err, Args |-> <<>>, Conditions |-> <<>>]

Hangs == [returned |-> FALSE, err |-> "none", Args |-> <<>>, Conditions |-> <<>>]

\* The loop of parseDirective accepting a positional argument after a
\* condition.
RECURSIVE loopAnyOrder(_, _)
loopAnyOrder(t, res) ==
    IF t = <<>> THEN res
    ELSE IF whitespace(t) > 0 THEN loopAnyOrder(Drop(t, whitespace(t)), res)
    ELSE IF condition(t).ok
    THEN LET m   == condition(t)
             key == unstring(m.key)
             val == unstring(m.value)
         IN  IF key.err # "none" THEN Failed(key.err)
             ELSE IF val.err # "none" THEN Failed(val.err)
             ELSE loopAnyOrder(Drop(t, m.len),
                    [res EXCEPT !.Conditions =
                                   Append(@, Condition(key.out, m.op, val.out))])
    ELSE LET n   == item(t)
             arg == unstring(SubSeq(t, 1, n))
         IN  IF arg.err # "none" THEN Failed(arg.err)
             ELSE IF n = 0 THEN Hangs
             ELSE loopAnyOrder(Drop(t, n), [res EXCEPT !.Args = Append(@, arg.out)])

\* The loop of parseDirective over the rest t of the text: whitespace is
\* dropped; a condition is appended; otherwise `arg` matches, always, and its
\* item is an error when a condition came before and else is appended. When
\* that match is empty the text stays as it is and the loop appends empty
\* arguments without end.
RECURSIVE loop(_, _)
loop(t, res) ==
    IF t = <<>> THEN res
    ELSE IF whitespace(t) > 0 THEN loop(Drop(t, whitespace(t)), res)
    ELSE IF condition(t).ok
    THEN LET m   == condition(t)
             key == unstring(m.key)
             val == unstring(m.value)
         IN  IF key.err # "none" THEN Failed(key.err)
             ELSE IF val.err # "none" THEN Failed(val.err)
             ELSE loop(Drop(t, m.len),
                    [res EXCEPT !.Conditions =
                                   Append(@, Condition(key.out, m.op, val.out))])
    ELSE LET n   == item(t)
             arg == unstring(SubSeq(t, 1, n))
         IN  IF res.Conditions # <<>>
             THEN Failed("positional argument after condition argument")
             ELSE IF arg.err # "none" THEN Failed(arg.err)
             ELSE IF n = 0 THEN Hangs
             ELSE loop(Drop(t, n), [res EXCEPT !.Args = Append(@, arg.out)])

parseDirective(src) == loop(src, Parsed(<<>>, <<>>))

MetaEvent(event, conditions) == [Event |-> event, Conditions |-> conditions]

MetaError(lineNum, err) ==
    [returned |-> TRUE, err |-> err, line |-> lineNum, Events |-> <<>>]

\* The loop of parseMeta that takes the first argument after `on` as the
\* event whatever the number of arguments.
RECURSIVE metaLoopAnyArity(_, _, _)
metaLoopAnyArity(lines, lineNum, events) ==
    IF lineNum > Len(lines)
    THEN [returned |-> TRUE, err |-> "none", line |-> 0, Events |-> events]
    ELSE IF ~StartsWith(lines[lineNum], <<"#", "#">>)
    THEN metaLoopAnyArity(lines, lineNum + 1, events)
    ELSE LET directive == parseDirective(Drop(lines[lineNum], 2)) IN
         IF ~directive.returned
         THEN [returned |-> FALSE, err |-> "none", line |-> lineNum, Events |-> <<>>]
         ELSE IF directive.err # "none" THEN MetaError(lineNum, directive.err)
         ELSE IF directive.Args = <<>> THEN MetaError(lineNum, "no arguments")
         ELSE IF directive.Args[1] = <<"o", "n">> /\ Len(directive.Args) >= 2
         THEN metaLoopAnyArity(lines, lineNum + 1,
                Append(events, MetaEvent(directive.Args[2], directive.Conditions)))
         ELSE metaLoopAnyArity(lines, lineNum + 1, events)

\* The loop of parseMeta over the lines of the content, line lineNum next:
\* a line without the prefix ## is skipped; an error of parseDirective, a
\* directive without arguments and an `on` with other than two arguments end
\* it with the line's number; an `on` adds an event; other verbs add nothing.
RECURSIVE metaLoop(_, _, _)
metaLoop(lines, lineNum, events) ==
    IF lineNum > Len(lines)
    THEN [returned |-> TRUE, err |-> "none", line |-> 0, Events |-> events]
    ELSE IF ~StartsWith(lines[lineNum], <<"#", "#">>)
    THEN metaLoop(lines, lineNum + 1, events)
    ELSE LET directive == parseDirective(Drop(lines[lineNum], 2)) IN
         IF ~directive.returned
         THEN [returned |-> FALSE, err |-> "none", line |-> lineNum, Events |-> <<>>]
         ELSE IF directive.err # "none" THEN MetaError(lineNum, directive.err)
         ELSE IF directive.Args = <<>> THEN MetaError(lineNum, "no arguments")
         ELSE IF directive.Args[1] = <<"o", "n">>
         THEN IF Len(directive.Args) # 2
              THEN MetaError(lineNum, "'on' directive must have exactly one argument")
              ELSE metaLoop(lines, lineNum + 1,
                     Append(events, MetaEvent(directive.Args[2], directive.Conditions)))
         ELSE metaLoop(lines, lineNum + 1, events)

\* parseMeta of a content given as its lines (strings.Split(content, "\n")).
parseMeta(lines) == metaLoop(lines, 1, <<>>)

\* ---------------------------------------------------------------------------
\* Directive parser: inputs
\* ---------------------------------------------------------------------------

\* Items of a directive text, and lines of a script.
MaxItems == 3

MaxMetaLines == 2

\* A token: the text it stands for, written bare or between double quotes.
Token(value, quoted) == [value |-> value, quoted |-> quoted]

Escaped(c) ==
    CASE c = "\\" -> <<"\\", "\\">>
      [] c = "\"" -> <<"\\", "\"">>
      [] c = "\n" -> <<"\\", "n">>
      [] c = "\r" -> <<"\\", "r">>
      [] c = "\t" -> <<"\\", "t">>
      [] OTHER -> <<c>>

RECURSIVE Escape(_)
Escape(value) ==
    IF value = <<>> THEN <<>> ELSE Escaped(Head(value)) \o Escape(Tail(value))

Written(tok) ==
    IF tok.quoted THEN <<"\"">> \o Escape(tok.value) \o <<"\"">> ELSE tok.value

ArgItem(tok) == [kind |-> "arg", tok |-> tok]

CondItem(key, op, val) == [kind |-> "cond", key |-> key, op |-> op, val |-> val]

WrittenItem(it) ==
    IF it.kind = "arg" THEN Written(it.tok)
    ELSE Written(it.key) \o it.op \o Written(it.val)

Operators == { <<"=">>, <<"!", "=">>, <<"~", "=">>, <<"!", "~", "=">> }

ArgInputs ==
    { ArgItem(Token(<<"a">>, FALSE)),
      ArgItem(Token(<<"a", " ", "=">>, TRUE)),
      ArgItem(Token(<<"\\", "\"">>, TRUE)),
      ArgItem(Token(<<>>, TRUE)) }

CondInputs ==
    { CondItem(Token(<<"k">>, FALSE), op, Token(<<"v">>, FALSE)) : op \in Operators }
    \cup
    { CondItem(Token(<<"k", " ">>, TRUE), <<"!", "~", "=">>,
               Token(<<"\n", "\t", "\r">>, TRUE)),
      CondItem(Token(<<"k">>, FALSE), <<"=">>, Token(<<>>, TRUE)),
      CondItem(Token(<<"!">>, TRUE), <<"!", "=">>, Token(<<"=">>, TRUE)) }

ItemSeqs == UNION { [1..n -> ArgInputs \cup CondInputs] : n \in 0..MaxItems }

\* Whitespace written before each item.
Separators == { <<" ">>, <<"\t", " ">> }

RECURSIVE Text(_, _)
Text(items, sep) ==
    IF items = <<>> THEN <<>>
    ELSE sep \o WrittenItem(Head(items)) \o Text(Tail(items), sep)

DirectiveInputs == { [items |-> is, sep |-> sep] : is \in ItemSeqs, sep \in Separators }

\* Texts that are not a sequence of well-formed items: a special character, a
\* backslash or an unterminated string where an item should start.
TextInputs ==
    { <<";">>, <<"!">>, <<"~">>, <<"=">>, <<"\\">>, <<"\"", "a">>,
      <<"!", "x">>, <<"~", "x">>, <<"=", "x">>, <<"\\", "n">>,
      <<"a", ";", "b">>, <<"a", " ", "\"", "b">>, <<"a", "!">>,
      <<"k", "=", "v", ";">>, <<"k", "=", "v", " ", "\\">>,
      <<"k", "=", "v", " ", "\"", "b">>, <<"\"", "\\", "q", "\"">> }

\* Lines of a script: what the line starts with and the items after it.
MetaLine(prefix, items) == [prefix |-> prefix, items |-> items, sep |-> <<" ">>]

Word(value) == ArgItem(Token(value, FALSE))

OnWord == Word(<<"o", "n">>)

PushWord == Word(<<"p", "u", "s", "h">>)

PrWord == Word(<<"p", "r">>)

BranchCond == CondItem(Token(<<"b">>, FALSE), <<"=">>, Token(<<"m">>, FALSE))

QuotedCond ==
    CondItem(Token(<<"k", " ">>, TRUE), <<"!", "~", "=">>, Token(<<"\n">>, TRUE))

MetaLineInputs ==
    { MetaLine(<<"#", "!">>, <<Word(<<"s", "h">>)>>),
      MetaLine(<<"#">>, <<OnWord, PushWord, BranchCond>>),
      MetaLine(<<>>, <<OnWord, PushWord>>),
      MetaLine(<<"#", "#">>, <<OnWord, PushWord, BranchCond>>),
      MetaLine(<<"#", "#">>, <<OnWord, PrWord>>),
      MetaLine(<<"#", "#">>,
               <<OnWord, ArgItem(Token(<<"p", "u", "s", "h">>, TRUE)),
                 QuotedCond, BranchCond>>),
      MetaLine(<<"#", "#">>, <<>>),
      MetaLine(<<"#", "#">>, <<BranchCond>>),
      MetaLine(<<"#", "#">>, <<OnWord>>),
      MetaLine(<<"#", "#">>, <<OnWord, PushWord, PrWord>>),
      MetaLine(<<"#", "#">>, <<Word(<<"s", "h">>), PushWord>>),
      MetaLine(<<"#", "#">>, <<OnWord, PushWord, BranchCond, PrWord>>) }

LineText(l) == l.prefix \o Text(l.items, l.sep)

MetaInputLines == UNION { [1..n -> MetaLineInputs] : n \in 0..MaxMetaLines }

\* ---------------------------------------------------------------------------
\* Directive parser: specification
\* ---------------------------------------------------------------------------

ParseDirective ==
    /\ parse.called = "none" /\ parse.kind \in {"directive", "text"}
    /\ parse' = [parse EXCEPT !.called = "parseDirective",
                              !.res = parseDirective(parse.src)]
    /\ UNCHANGED <<executorVars, pipelineVars, sandboxVars, serverVars, cgroupVars>>

ParseMeta ==
    /\ parse.called = "none" /\ parse.kind = "meta"
    /\ parse' = [parse EXCEPT !.called = "parseMeta",
                              !.res = parseMeta(parse.src)]
    /\ UNCHANGED <<executorVars, pipelineVars, sandboxVars, serverVars, cgroupVars>>

ParserInit ==
    /\ \/ \E in \in DirectiveInputs :
            parse = [NoParse EXCEPT !.kind = "directive", !.input = in,
                                    !.src = Text(in.items, in.sep)]
       \/ \E t \in TextInputs :
            parse = [NoParse EXCEPT !.kind = "text", !.input = t, !.src = t]
       \/ \E ls \in MetaInputLines :
            parse = [NoParse EXCEPT !.kind = "meta", !.input = ls,
                                    !.src = [i \in 1..Len(ls) |-> LineText(ls[i])]]
    /\ ExecutorInit(idleScenario)
    /\ PipelineIdle
    /\ SandboxIdle
    /\ ServerIdle
    /\ CgroupIdle

ParserNext ==
    \/ ParseDirective
    \/ ParseMeta

ParserSpec == ParserInit /\ [][ParserNext]_vars

\* ---------------------------------------------------------------------------
\* Cgroups
\* ---------------------------------------------------------------------------

\* cgroup c is cgroup g or lies below it.
Under(c, g) == Len(c) >= Len(g) /\ SubSeq(c, 1, Len(g)) = g

\* The cgroup of the container of job j: oci.WithNamespacedCgroup puts the
\* container "job-<id>" below the cgroup named after the containerd
\* namespace, "bender".
ContainerCgroup(j) == <<"bender", "job-" \o j>>

\* initCgroup: the groups bender and jobs are created below the supervisor's
\* own cgroup and the supervisor moves into bender.
InitCgroup ==
    /\ ~procs.bootstrapped
    /\ procs' = [procs EXCEPT !.bootstrapped = TRUE, !.supervisor = BenderCgroup]
    /\ UNCHANGED <<executorVars, pipelineVars, sandboxVars, serverVars, parserVars>>

\* s.containerd.NewContainer for job j, and the task started in it.
ContainerStarts(j) ==
    /\ j \notin procs.containers
    /\ procs' = [procs EXCEPT !.containers = @ \cup {j}]
    /\ UNCHANGED <<executorVars, pipelineVars, sandboxVars, serverVars, parserVars>>

\* The deferred task.Delete and container.Delete of job j.
ContainerDeleted(j) ==
    /\ j \in procs.containers
    /\ procs' = [procs EXCEPT !.containers = @ \ {j}]
    /\ UNCHANGED <<executorVars, pipelineVars, sandboxVars, serverVars, parserVars>>

\* The ruleset is installed while the cgroups are as they are.
CgroupSetupNftables ==
    /\ SetupNftables
    /\ UNCHANGED procs

\* The supervisor or a process of a container sends an IPv4 packet.
Send ==
    /\ \E cgroup \in {procs.supervisor} \cup {ContainerCgroup(j) : j \in procs.containers},
          daddr \in AddrInputs, proto \in {"tcp", "udp"} :
         packet' =
            [ cgroup |-> cgroup, daddr |-> daddr, proto |-> proto,
              listed |-> daddr \in nft.allow,
              gated |-> nft.installed /\ gated(cgroup),
              verdict |-> IF nft.installed /\ gated(cgroup)
                          THEN benderOutput(daddr, proto) ELSE "accept" ]
    /\ UNCHANGED <<allowedDomains, cgroupRoot, nft, dns, procs, executorVars,
                   pipelineVars, serverVars, parserVars>>

CgroupInit ==
    /\ cgroupRoot \in CgroupRootInputs
    /\ procs = [NoProcs EXCEPT !.supervisor = cgroupRoot]
    /\ allowedDomains = <<>>
    /\ nft = [installed |-> FALSE, allow |-> {}]
    /\ dns = NoRequest
    /\ packet = NoPacket
    /\ ExecutorInit(idleScenario)
    /\ PipelineIdle
    /\ ServerIdle
    /\ ParserIdle

CgroupNext ==
    \/ InitCgroup
    \/ \E j \in Jobs : ContainerStarts(j)
    \/ \E j \in Jobs : ContainerDeleted(j)
    \/ CgroupSetupNftables
    \/ Send

CgroupSpec == CgroupInit /\ [][CgroupNext]_vars

\* ---------------------------------------------------------------------------
\* Properties
\* ---------------------------------------------------------------------------

Has(j, c) == \E i \in 1..Len(trace[j]) : trace[j][i] = c

\* Position of the first call c in job j's trace, 0 when there is none.
First(j, c) ==
    IF Has(j, c)
    THEN CHOOSE i \in 1..Len(trace[j]) :
           trace[j][i] = c /\ \A k \in 1..(i - 1) : trace[j][k] # c
    ELSE 0

Returned(j) == run[j].pc = "done"

\* C1: once runJob has returned, on whichever exit path, the running-jobs
\* registry does not contain the job's id.
C1_RegistryCleanup == \A j \in Jobs : Returned(j) => j \notin runningJobs

\* A job that was registered has returned after its inner run panicked.
C1_Witness == \E j \in Jobs : Returned(j) /\ run[j].err = "panic"

\* The jobs handleEvent has spawned.
Spawned == {j \in Jobs : run[j].pc # "none"}

\* Job j is the only job, and no garbage-collector tick has chosen a path.
Alone(j) == Spawned = {j} /\ gc.ticks = 0

FinalPosts == {"status:success", "status:failure"}

\* Job j's commit has finished / has finished with a successful rename.
Committed(j) == \E i \in 1..Len(commits) : commits[i].job = j

RenameOk(j) == \E i \in 1..Len(commits) : commits[i].job = j /\ commits[i].ok

\* C2 as claimed: a failure after the image was obtained still runs the
\* cache commit before the final status failure is posted.
C2_Original ==
    \A j \in Jobs :
       Has(j, "mkArtifacts") /\ Has(j, "status:failure") => Has(j, "commit")

\* C2 amended: every job that reached the token step and did not receive exit
\* code 0 posts the final status failure; the cache commit runs exactly when
\* the task's exit status was received, so a failure of staging, provisioning,
\* container creation, task creation, start or wait returns without a commit,
\* and the per-run snapshot, when it was created, is discarded instead.
C2_FailureSemantics ==
    \A j \in Jobs :
       Returned(j) /\ Has(j, "token") =>
          /\ run[j].status # "exit0" => Has(j, "status:failure")
          /\ Has(j, "commit") <=> run[j].status # "none"
          /\ Has(j, "provision") /\ ~Has(j, "commit") => Has(j, "discard")

\* A job whose container creation failed has returned: failure posted, no
\* commit, the provisioned snapshot discarded.
C2_Witness ==
    \E j \in Jobs :
       /\ Returned(j) /\ Has(j, "newContainer") /\ run[j].container = "none"
       /\ Has(j, "status:failure") /\ ~Has(j, "commit") /\ Has(j, "discard")

\* C3 as claimed: while a commit that found its primary is under way (and
\* nothing else touches the cache), the primary path is never absent.
C3_Original ==
    \A j \in Jobs :
       /\ Alone(j) /\ run[j].hadPrimary
       /\ run[j].pc \in {"commitDelete", "commitRmAll", "commitRename"}
       => Exists(cache[primary(j)])

\* C3 amended: during a commit that found its primary (and with nothing else
\* touching the cache) the primary path holds the old subvolume until the
\* delete succeeds, is absent from then until the rename succeeds, and holds
\* the job's snapshot afterwards; if the rename fails it stays as the delete
\* left it. A reader observes the old primary, no primary, or the new one.
C3_AbsentBetweenDeleteAndRename ==
    \A j \in Jobs :
       Alone(j) /\ run[j].hadPrimary =>
          LET p == cache[primary(j)] IN
          /\ At(j, "commitDelete") => p.run = "old"
          /\ ~Exists(p) => At(j, "commitRename") \/ (Committed(j) /\ ~RenameOk(j))
          /\ Exists(p) => p.run \in {"old", j}
          /\ RenameOk(j) => p.run = j

\* The primary was found, has been deleted and is not yet renamed onto.
C3_Witness ==
    \E j \in Jobs :
       /\ Alone(j) /\ run[j].hadPrimary /\ At(j, "commitRename")
       /\ ~Exists(cache[primary(j)])

\* C4 as claimed: when two jobs of one primary have both finished their
\* commits (no call failing, no garbage collection), the primary holds the
\* snapshot of the job whose commit finished last.
C4_Original ==
    Spawned = Jobs /\ faults = {} /\ Len(commits) = 2
    => cache["branch-main"].run = commits[2].job

\* The job whose rename succeeded last, "none" when no rename succeeded.
lastRenamed ==
    IF \E i \in 1..Len(commits) : commits[i].ok
    THEN commits[CHOOSE i \in 1..Len(commits) :
                   commits[i].ok /\ \A k \in (i + 1)..Len(commits) : ~commits[k].ok].job
    ELSE "none"

\* C4 amended: a primary that holds a per-run snapshot holds that of the job
\* whose rename succeeded last, which need not be the job whose commit
\* finished last (a rename onto an occupied primary fails and leaves the other
\* job's snapshot in place); when no call fails and both commits have
\* finished, the primary does hold a per-run snapshot.
C4_LastRenameWins ==
    /\ \A j \in Spawned :
          cache[primary(j)].run \in Jobs => cache[primary(j)].run = lastRenamed
    /\ Spawned = Jobs /\ faults = {} /\ Len(commits) = 2
       => cache["branch-main"].run \in Jobs

\* Both commits have finished with no call failing, and the primary holds
\* the snapshot of the job that finished first.
C4_Witness ==
    /\ Spawned = Jobs /\ faults = {} /\ Len(commits) = 2
    /\ commits[1].ok /\ ~commits[2].ok
    /\ cache["branch-main"].run = commits[1].job

\* C5 as claimed: whatever the delete and the rename did, after the commit
\* the primary exists and jobs/<job>/cache does not.
C5_Original ==
    \A j \in Jobs :
       Alone(j) /\ At(j, "comment") =>
          Exists(cache[primary(j)]) /\ ~Exists(jobCache[j])

\* C5 amended: after a commit whose rename succeeded, jobs/<job>/cache does
\* not exist and (nothing else touching the cache) the primary holds the
\* job's snapshot; after a commit whose rename failed, jobs/<job>/cache still
\* exists when the commit step completes.
C5_CacheOrdering ==
    \A j \in Jobs :
       Committed(j) =>
          /\ RenameOk(j) => ~Exists(jobCache[j])
          /\ RenameOk(j) /\ Alone(j) => cache[primary(j)].run = j
          /\ ~RenameOk(j) /\ At(j, "comment") => Exists(jobCache[j])

\* A commit has just completed with a successful rename onto a primary that
\* was there before.
C5_Witness ==
    \E j \in Jobs :
       At(j, "comment") /\ RenameOk(j) /\ run[j].hadPrimary /\ Alone(j)

\* The token permissions of an untrusted job: metadata and contents, read.
ReadOnlyPermissions ==
    [k \in PermFields |-> IF k \in {"metadata", "contents"} THEN "read" ELSE "none"]

\* C6: a job with trusted = false never has the secrets directory among its
\* container's mounts, and the token minted for it carries exactly
\* metadata:read and contents:read on exactly its own repository, whatever
\* its metadata declares.
C6_TrustedGating ==
    \A j \in Jobs :
       ~job[j].Trusted =>
          /\ \A m \in run[j].mounts :
                m.Source # "secrets/<owner>/<repo>" /\ m.Destination # "/ci/secrets"
          /\ run[j].token # NoToken =>
                /\ run[j].token.Permissions = ReadOnlyPermissions
                /\ run[j].token.Repositories = <<job[j].Repo>>

\* An untrusted job that declares permissions and extra repositories has its
\* token and its container.
C6_Witness ==
    \E j \in Jobs :
       /\ ~job[j].Trusted
       /\ job[j].Permissions # NoPermissions /\ job[j].PermissionRepos # <<>>
       /\ run[j].token # NoToken /\ run[j].container = "created"

\* The permission keys and values the specification accepts.
ClaimedKeys ==
    { "actions", "checks", "contents", "deployments", "issues", "packages",
      "pages", "pull_requests", "repository_projects", "security_events",
      "statuses" }

DeclaresInvalid(jb) ==
    \E k \in DOMAIN jb.Permissions :
       k \notin ClaimedKeys \/ jb.Permissions[k] \notin {"read", "write"}

\* C7 as claimed: a job that declares an invalid permission key or value,
\* trusted or not, never gets as far as creating a container.
C7_Original ==
    \A j \in Jobs : DeclaresInvalid(job[j]) => ~Has(j, "newContainer")

\* C7 amended: a trusted job that declares a permission key outside the
\* accepted set, or a value other than read or write, fails in the token step:
\* no token is minted, no container is created, and its final status is
\* failure. An untrusted job's declared permissions are not examined.
C7_PermissionClosure ==
    \A j \in Jobs :
       job[j].Trusted /\ DeclaresInvalid(job[j]) =>
          /\ run[j].token = NoToken
          /\ ~Has(j, "mkArtifacts") /\ ~Has(j, "newContainer")
          /\ run[j].container = "none"
          /\ Returned(j) /\ Has(j, "token") => Has(j, "status:failure")

\* A trusted job declaring an unknown key has returned with status failure.
C7_Witness ==
    \E j \in Jobs :
       /\ job[j].Trusted /\ DeclaresInvalid(job[j])
       /\ \A k \in DOMAIN job[j].Permissions : job[j].Permissions[k] = "read"
       /\ Returned(j) /\ Has(j, "status:failure")

\* The status posts of job j, in order.
IsStatus(c) == c \in {"status:pending"} \cup FinalPosts

StatusPosts(j) == SelectSeq(trace[j], IsStatus)

\* C8: a job's status posts are sequential: pending first, then a single
\* success or failure, and nothing after it.
C8_StatusOrder ==
    \A j \in Jobs :
       LET posts == StatusPosts(j) IN
       /\ Len(posts) <= 2
       /\ Len(posts) >= 1 => posts[1] = "status:pending"
       /\ Len(posts) = 2 => posts[2] \in FinalPosts

\* A job has posted pending and then its final status.
C8_Witness ==
    \E j \in Jobs : Len(StatusPosts(j)) = 2 /\ StatusPosts(j)[2] = "status:success"

\* C9: every step of a job's cache commit comes before its PR comment post
\* and before its final status post, and a commit that was started has
\* finished by then.
C9_CommitFirst ==
    \A j \in Jobs :
       \A k \in 1..Len(trace[j]) :
          trace[j][k] \in FinalPosts \cup {"comment"} =>
             /\ \A i \in k..Len(trace[j]) :
                   trace[j][i] \notin {"commitStart", "commit"}
             /\ Has(j, "commitStart") => Has(j, "commit")
             /\ trace[j][k] = "comment" => Has(j, "commit")

\* A job has committed, posted its PR comment and posted its final status.
C9_Witness ==
    \E j \in Jobs :
       /\ Has(j, "commit") /\ Has(j, "comment") /\ Has(j, "status:success")
       /\ First(j, "commit") < First(j, "comment")
       /\ First(j, "comment") < First(j, "status:success")

\* The first tag of a cache list that exists in the cache, "" when none does.
FirstExisting(list) ==
    IF \E i \in 1..Len(list) : Exists(cache[list[i]])
    THEN list[CHOOSE i \in 1..Len(list) :
                /\ Exists(cache[list[i]])
                /\ \A k \in 1..(i - 1) : ~Exists(cache[list[k]])]
    ELSE ""

\* C10: provisioning checks the cache tags in order and stops at the first
\* that exists, which is the base it snapshots to jobs/<job>/cache; when none
\* exists it creates an empty subvolume there. With nothing else touching the
\* cache, the base is the first tag of the list that exists, and the per-run
\* snapshot has its contents.
C10_Provision ==
    \A j \in Jobs :
       Has(j, "provision") =>
          LET base == run[j].cacheBaseName
              seen == run[j].scanned
          IN
          /\ \A i \in 1..(Len(seen) - 1) : ~seen[i]
          /\ base = "" => Len(seen) = Len(job[j].Cache) /\ ~seen[Len(seen)]
          /\ base # "" => seen[Len(seen)] /\ job[j].Cache[Len(seen)] = base
          /\ Alone(j) /\ At(j, "writeHome") =>
                /\ base = FirstExisting(job[j].Cache)
                /\ jobCache[j].run = j
                /\ jobCache[j].data = IF base = "" THEN 0 ELSE cache[base].data

\* The first tag is missing and the two fallbacks exist: the per-run
\* snapshot was taken from the first fallback.
C10_Witness ==
    \E j \in Jobs :
       /\ Alone(j) /\ At(j, "writeHome") /\ Len(job[j].Cache) = 3
       /\ ~Exists(cache[job[j].Cache[1]])
       /\ Exists(cache[job[j].Cache[2]]) /\ Exists(cache[job[j].Cache[3]])
       /\ run[j].cacheBaseName = job[j].Cache[2]
       /\ jobCache[j].data = cache[job[j].Cache[2]].data

\* The snapshot of job j is in place and its payload has not run yet.
AtContainerStart(j) == run[j].pc \in {"start", "wait", "exited"}

\* Job a's rename succeeded while job b had not yet looked at the cache
\* directory, both jobs have the same primary, and a's payload wrote contents.
CommittedBefore(a, b) ==
    /\ a # b
    /\ primary(a) = primary(b)
    /\ job[a].Script.write # -1
    /\ \E i \in 1..Len(commits) :
          commits[i].job = a /\ commits[i].ok /\ b \in commits[i].before

\* C11: when a run's commit has completed before a later run of the same
\* primary provisions, and the garbage collector has deleted nothing, the
\* later run's snapshot at container start holds the contents the first run
\* committed.
C11_CacheReuse ==
    \A a, b \in Jobs :
       (CommittedBefore(a, b) /\ gc.ticks = 0 /\ AtContainerStart(b))
          => jobCache[b].data = job[a].Script.write

\* The second run is at container start on a snapshot of what the first run
\* committed, which differs from what was there before the first run.
C11_Witness ==
    \E a, b \in Jobs :
       /\ CommittedBefore(a, b) /\ gc.ticks = 0 /\ run[b].pc = "exited"
       /\ job[a].Script.write = 2
       /\ jobCache[b].data = 2

\* Job j's log holds a line beginning "run failed:".
LoggedRunFailed(j) ==
    \E i \in 1..Len(logs[j].lines) : logs[j].lines[i] = "run failed:"

PostedFinal(j) == run[j].pc \in {"unregister", "done"} /\ Len(run[j].posts) = 2

\* C13: the final status is success exactly when the task exited with code 0
\* without an error in its exit status, which no run reaches after a failed or
\* panicked step, and failure otherwise; the outcome of the cache commit and of
\* the comment post plays no part. The final post has the context
\* ci/<job-name> and the target URL <external_url>/jobs/<job-id> of the
\* pending post.
C13_FinalStatus ==
    \A j \in Jobs :
       PostedFinal(j) =>
          LET pending == run[j].posts[1]
              final   == run[j].posts[2]
          IN  /\ pending.State = "pending"
              /\ final.State = IF run[j].status = "exit0" /\ run[j].err = "none"
                               THEN "success" ELSE "failure"
              /\ run[j].status = "exit0" => run[j].err = "none"
              /\ Has(j, "status:success") <=> final.State = "success"
              /\ Has(j, "status:failure") <=> final.State = "failure"
              /\ final.Context = <<"ci", job[j].Name>>
              /\ final.TargetURL = <<config.ExternalURL, "jobs", j>>
              /\ final.Context = pending.Context
              /\ final.TargetURL = pending.TargetURL

\* A pull-request job posted success although its rename failed and its
\* comment.md could not be read.
C13_Witness ==
    \E j \in Jobs :
       /\ PostedFinal(j) /\ run[j].posts[2].State = "success"
       /\ Committed(j) /\ ~RenameOk(j)
       /\ job[j].PullRequest /\ jobFiles[j].comment = "file" /\ ~Has(j, "comment")

Emitted == {hook.events[i] : i \in 1..Len(hook.events)}

\* C15: every emitted push event is trusted, and every emitted pull-request
\* event, from a pull_request webhook or from a `bender run` command, is
\* trusted exactly when the owner of the PR's head repository is the owner of
\* the target repository.
C15_Trust ==
    \A e \in Emitted :
       /\ e.Event = "push" => e.Trusted
       /\ e.Event = "pull_request" =>
             (e.Trusted <=> delivery.headOwner = RepoOwner)

\* A `bender run` on a pull request from a fork has emitted an untrusted
\* event and its job has been spawned.
C15_Witness ==
    /\ delivery.type = "issue_comment" /\ delivery.headOwner = "fork"
    /\ hook.pc = "done" /\ spawnedJobs # <<>>
    /\ \E e \in Emitted : e.Event = "pull_request" /\ ~e.Trusted

\* The branch a push delivery is for, and the branch its cache is expected
\* under: the target branch of the queue entry for a merge-queue ref, the
\* branch itself otherwise.
PushedBranch == CutPrefix(delivery.ref, <<"refs", "heads">>)

ExpectedCacheBranch ==
    IF delivery.queue THEN delivery.queueTarget ELSE PushedBranch

\* C16: every emitted event carries a non-empty cache tag list with the
\* primary first: a push to b yields [branch-<t>, branch-<default>], t being
\* the target branch for a merge-queue ref and b otherwise, with the branch
\* attribute the unrewritten b; a pull-request event for PR N on base yields
\* [pr-<N>, branch-<base>, branch-<default>].
C16_Original ==
    \A e \in Emitted :
       /\ e.Cache # <<>>
       /\ e.Event = "push" =>
             /\ e.Cache = << Sprintf("branch-", ExpectedCacheBranch),
                             Sprintf("branch-", DefaultBranch) >>
             /\ e.Attributes["branch"] = PushedBranch
       /\ e.Event = "pull_request" =>
             e.Cache = << <<"pr-" \o ToString(delivery.number)>>,
                          Sprintf("branch-", delivery.base),
                          Sprintf("branch-", DefaultBranch) >>

\* handleWebhook has returned without an error: every handleEvent returned nil.
HandledAll == hook.pc = "done" /\ hook.response = 200

\* Entry f of .github/ci is a regular file whose metadata parsed and holds a
\* MetaEvent of the event's kind all of whose conditions are true.
ShouldSpawn(f, event) == f.Type = "file" /\ f.meta.ok /\ matched(f.meta, event)

\* The spawned jobs of event k that run file f.
JobsFor(k, f) ==
    {i \in 1..Len(spawnedJobs) :
       spawnedJobs[i].event = k /\ spawnedJobs[i].Script = f.Name}

\* C17: for one event, once handleEvent has returned without error, exactly
\* one job has been spawned for each regular file of .github/ci whose metadata
\* has a MetaEvent of the event's kind with all conditions true (a missing
\* attribute reads as the empty string), and none for any other entry; several
\* matching MetaEvents in one file still give one job.
C17_OneJobPerMatchingFile ==
    HandledAll =>
       /\ \A k \in 1..Len(hook.events) :
             \A i \in 1..Len(repoDir.files) :
                Cardinality(JobsFor(k, repoDir.files[i])) =
                   IF ShouldSpawn(repoDir.files[i], hook.events[k]) THEN 1 ELSE 0
       /\ \A n \in 1..Len(spawnedJobs) :
             /\ spawnedJobs[n].event \in 1..Len(hook.events)
             /\ \E i \in 1..Len(repoDir.files) :
                   spawnedJobs[n].Script = repoDir.files[i].Name

\* A push to main has spawned one job for a file with two matching MetaEvents
\* and one for a file whose condition is on an attribute the event lacks.
C17_Witness ==
    /\ HandledAll /\ Len(hook.events) = 1 /\ hook.events[1].Event = "push"
    /\ Len(repoDir.files) = 2 /\ Len(spawnedJobs) = 2
    /\ Len(repoDir.files[1].meta.Events) = 2
    /\ \A i \in 1..2 : matched(Meta(<<repoDir.files[1].meta.Events[i]>>), hook.events[1])
    /\ repoDir.files[2].meta = Meta(<<On("push", <<Cond("tag", "=", EmptyString)>>)>>)

\* The lines of the comment that are a well-formed `bender run`.
RunLines ==
    {i \in 1..Len(delivery.body) :
       /\ delivery.body[i].bender
       /\ delivery.body[i].dir = Directive(<<"run">>, <<>>)}

\* handleCommands has gone through the comment and handleWebhook has returned.
CommentHandled ==
    /\ delivery.type = "issue_comment" /\ delivery.action = "created"
    /\ hook.pc = "done" /\ hook.line > Len(delivery.body)

\* C18: a `bender run` command emits a pull-request event only when the
\* comment author's repository permission is admin or write; for any other
\* permission level no event is emitted, no job is spawned, and one reply
\* comment reports `permission denied` for each `run` command (the error of
\* the permission call where the context of the webhook had expired by then).
C18_RunPermission ==
    /\ (delivery.type = "issue_comment" /\ hook.events # <<>>) =>
          delivery.permission \in {"admin", "write"}
    /\ (CommentHandled /\ delivery.permission \in {"read", "none"}) =>
          /\ hook.events = <<>>
          /\ spawnedJobs = <<>>
          /\ RunLines # {} =>
                /\ Len(replies) = 1
                /\ Cardinality({n \in 1..Len(replies[1]) :
                                  \/ replies[1][n] = [command |-> "run",
                                                      error |-> "permission denied"]
                                  \/ /\ hook.expired
                                     /\ replies[1][n] = [command |-> "run",
                                                         error |-> "api error"]})
                      = Cardinality(RunLines)

\* A comment by an author with read permission, holding a `bender run` line,
\* has been handled: permission denied is in the reply and nothing was spawned.
C18_Witness ==
    /\ CommentHandled /\ delivery.permission = "read" /\ delivery.isPR
    /\ RunLines # {}
    /\ Len(replies) = 1
    /\ replies[1][1] = [command |-> "run", error |-> "permission denied"]
    /\ spawnedJobs = <<>>

\* The addresses the host resolver returns for the query names that match a
\* configured pattern.
ResolvedForAllowed ==
    UNION { Addrs(LookupHost(n).ips) : n \in {x \in NameInputs : domainAllowed(x)} }

\* The last request ended at question i: a question of type A whose name
\* matches no pattern, with no such question and no failed lookup before it.
RefusedAt(i) ==
    /\ i \in 1..Len(dns.msg)
    /\ dns.msg[i].Qtype = "A" /\ ~domainAllowed(dns.msg[i].Name)
    /\ \A k \in 1..(i - 1) :
          dns.msg[k].Qtype = "A" =>
             domainAllowed(dns.msg[k].Name) /\ LookupHost(dns.msg[k].Name).ok

\* C19: the set `allow` holds only the stub resolver's address and addresses
\* the host resolver returned for an A query whose name matched an allowed
\* pattern; an A query for a name matching no pattern is answered NXDOMAIN,
\* its name is not looked up, and handling it adds nothing to the set.
C19_AllowSet ==
    /\ nft.allow \subseteq {StubAddr} \cup ResolvedForAllowed
    /\ dns.added \subseteq nft.allow
    /\ \A i \in 1..Len(dns.msg) :
          RefusedAt(i) =>
             /\ dns.rcode = "NXDOMAIN"
             /\ \A k \in 1..Len(dns.lookups) : dns.lookups[k] # dns.msg[i].Name
             /\ Len(dns.lookups) <= i - 1
             /\ i = 1 => (dns.lookups = <<>> /\ dns.added = {} /\ dns.answer = <<>>)

\* The set holds two resolved addresses besides the stub resolver's, and the
\* last request, for a name matching no pattern, was answered NXDOMAIN
\* without a lookup.
C19_Witness ==
    /\ Cardinality(nft.allow) >= 3
    /\ RefusedAt(1) /\ dns.rcode = "NXDOMAIN" /\ dns.lookups = <<>>
    /\ dns.msg[1].Name = <<"evilexample", "com", "">>

\* The cgroup of the packet's socket is the jobs cgroup or lies under it.
FromJobs(cgroup) ==
    /\ Len(cgroup) >= Len(JobsCgroup)
    /\ SubSeq(cgroup, 1, Len(JobsCgroup)) = JobsCgroup

\* C20: under the installed ruleset a packet from a socket of the jobs cgroup
\* is accepted exactly when its destination is in the set `allow` and is
\* otherwise rejected, with a TCP reset for TCP and ICMP host-prohibited for
\* the rest; a packet from a socket outside the jobs cgroup, the supervisor's
\* included, does not go through the gated chain.
C20_Original ==
    (nft.installed /\ packet.verdict # "none") =>
       IF FromJobs(packet.cgroup)
       THEN packet.verdict =
              IF packet.listed THEN "accept"
              ELSE IF packet.proto = "tcp" THEN "reject with tcp reset"
              ELSE "reject with icmp host-prohibited"
       ELSE ~packet.gated /\ packet.verdict = "accept"

\* The match the pattern stands for: a pattern D matches the name D; a
\* pattern *.D matches D and the names x.D of one more label.
MatchesAsStated(name, pattern) ==
    LET p == WithDot(pattern)
        n == WithDot(name)
    IN  IF Len(p) >= 2 /\ p[1] = "*"
        THEN n = Tail(p) \/ (Len(n) = Len(p) /\ Tail(n) = Tail(p))
        ELSE n = p

\* C21: domainMatches, trailing dots apart: a pattern D without wildcard
\* matches a name exactly when the name is D; a pattern *.D matches a name
\* exactly when the name is D or a subdomain x.D of one more label; a name
\* that only ends in the text of D, or that has D as a proper prefix, is
\* matched by neither. Stated of the name of the first question of the request
\* the resolver handled last and of every configured pattern.
C21_Original ==
    (dns.rcode # "none" /\ dns.msg[1].Qtype = "A") =>
       \A k \in 1..Len(allowedDomains) :
          domainMatches(dns.msg[1].Name, allowedDomains[k])
             <=> MatchesAsStated(dns.msg[1].Name, allowedDomains[k])

\* The last read of the log stream found end-of-file.
AtEOF == request.pc = "eof"

\* The log stream has not ended.
Streaming == request.pc \in {"streaming", "eof"}

\* C22: a log stream closes normally only when a read hits end-of-file while
\* the job is not in the registry of running jobs; while the job is in the
\* registry an end-of-file does not close the stream but is followed by the
\* 500 ms sleep and another read; once the job has left the registry the
\* stream eventually closes.
C22_LogStream ==
    /\ [][ (Streaming /\ request'.end = "eof")
             => (AtEOF /\ ~isJobRunning(request.jobID)) ]_vars
    /\ [][ (AtEOF /\ isJobRunning(request.jobID) /\ request' # request)
             => (request'.pc = "streaming" /\ request'.last = "sleep") ]_vars
    /\ [](request.end = "eof" => ~isJobRunning(request.jobID))
    /\ ((Streaming /\ ~isJobRunning(request.jobID)) ~> request.pc = "closed")

\* A stream opened while the job was running has slept at an end-of-file,
\* sent both lines of the log and closed at the end-of-file after the job
\* returned.
C22_Witness ==
    /\ request.end = "eof" /\ request.padded /\ request.slept
    /\ Len(request.body) >= 2

\* A non-empty text of lowercase letters and digits.
LowercaseAlnum(id) ==
    id # <<>> /\ \A i \in 1..Len(id) : id[i] \in Lower \cup Digits

\* C23: on the log and the artifact endpoint a job id that is not a non-empty
\* text of lowercase letters and digits is answered 404 with no file opened
\* or served; a request touches the filesystem only with an id that passed
\* the validation.
C23_ValidatedFirst ==
    /\ (request.pc # "idle" /\ ~LowercaseAlnum(request.jobID)) =>
          /\ request.status = 404 /\ request.pc = "closed"
          /\ request.fs = <<>> /\ request.body = <<>>
    /\ request.fs # <<>> => LowercaseAlnum(request.jobID)

\* The artifact endpoint has answered 404 to the id ".." without touching the
\* filesystem.
C23_Witness ==
    /\ request.endpoint = "artifacts" /\ request.jobID = <<".", ".">>
    /\ request.status = 404 /\ request.fs = <<>>

\* C24: a webhook whose signature does not verify is answered 200 and has no
\* side effect: no event is built, the provider is not called, no comment is
\* posted and no job is spawned; a webhook whose handling returns an error,
\* as when the listing of the job directory fails, is answered 500.
C24_WebhookAnswer ==
    /\ ~delivery.signed =>
          /\ [hook EXCEPT !.expired = FALSE]
                \in { NewHook,
                      [NewHook EXCEPT !.pc = "done", !.err = "nil",
                                      !.response = 200] }
          /\ spawnedJobs = <<>> /\ replies = <<>>
    /\ hook.pc = "done" =>
          /\ hook.err # "nil" => hook.response = 500
          /\ (hook.events # <<>> /\ repoDir.outcome = "error") =>
                (hook.err # "nil" /\ hook.response = 500)

\* An issue comment with a `run` command by an admin, whose signature does not
\* verify, has been answered.
C24_Witness ==
    /\ ~delivery.signed /\ delivery.type = "issue_comment"
    /\ hook.pc = "done" /\ hook.response = 200

\* The values of the positional tokens of a directive input, in order.
ArgValues(items) ==
    LET args == SelectSeq(items, LAMBDA it : it.kind = "arg") IN
    [i \in 1..Len(args) |-> args[i].tok.value]

\* The conditions of a directive input, in order.
CondValues(items) ==
    LET conds == SelectSeq(items, LAMBDA it : it.kind = "cond") IN
    [i \in 1..Len(conds) |-> Condition(conds[i].key.value, conds[i].op, conds[i].val.value)]

\* Some positional token comes after a condition.
Misordered(items) ==
    \E i \in 1..Len(items), k \in 1..Len(items) :
       i < k /\ items[i].kind = "cond" /\ items[k].kind = "arg"

\* C25: parseDirective fails for every text in which a positional argument
\* comes after a condition, and returns no directive, not even in part.
C25_PositionalAfterCondition ==
    (parse.called = "parseDirective" /\ parse.kind = "directive" /\ Misordered(parse.input.items)) =>
       /\ parse.res.returned
       /\ parse.res.err = "positional argument after condition argument"
       /\ parse.res.Args = <<>> /\ parse.res.Conditions = <<>>

\* A text of two positional tokens, a condition and one more positional token
\* has been refused.
C25_Witness ==
    /\ parse.called = "parseDirective" /\ parse.kind = "directive"
    /\ Len(parse.input.items) = 3
    /\ parse.input.items[1].kind = "arg" /\ parse.input.items[2].kind = "cond"
    /\ parse.input.items[3].kind = "arg"
    /\ parse.res.err # "none"

\* C26: for every text made of positional tokens followed by conditions
\* key OP value, the tokens written bare or between double quotes with the
\* escapes \\ \" \n \r \t, parseDirective succeeds and returns those tokens
\* and conditions, unescaped, in the same order.
C26_RoundTrip ==
    (parse.called = "parseDirective" /\ parse.kind = "directive" /\ ~Misordered(parse.input.items)) =>
       parse.res = Parsed(ArgValues(parse.input.items), CondValues(parse.input.items))

\* A quoted token with escapes, then a quoted condition with escapes, have
\* been parsed back.
C26_Witness ==
    /\ parse.called = "parseDirective" /\ parse.kind = "directive"
    /\ Len(parse.input.items) = 3
    /\ parse.input.items[2] = ArgItem(Token(<<"\\", "\"">>, TRUE))
    /\ parse.input.items[3].kind = "cond" /\ parse.input.items[3].val.quoted
    /\ parse.input.items[3].val.value # <<>>
    /\ parse.res.err = "none" /\ Len(parse.res.Args) = 2

\* What a line of a script is for parseMeta: nothing ("skip"), an event, or
\* an error.
LineOutcome(l) ==
    IF l.prefix # <<"#", "#">> THEN "skip"
    ELSE IF Misordered(l.items) THEN "error"
    ELSE IF ArgValues(l.items) = <<>> THEN "error"
    ELSE IF ArgValues(l.items)[1] # <<"o", "n">> THEN "skip"
    ELSE IF Len(ArgValues(l.items)) = 2 THEN "event" ELSE "error"

\* The events of the `on` lines of a script, in order.
RECURSIVE EventsOf(_)
EventsOf(ls) ==
    IF ls = <<>> THEN <<>>
    ELSE IF LineOutcome(Head(ls)) = "event"
    THEN <<MetaEvent(ArgValues(Head(ls).items)[2], CondValues(Head(ls).items))>>
         \o EventsOf(Tail(ls))
    ELSE EventsOf(Tail(ls))

ErrorLines(ls) == {i \in 1..Len(ls) : LineOutcome(ls[i]) = "error"}

\* C27: parseMeta returns one MetaEvent, in the order of the lines, for each
\* line that starts with ## and is an `on <kind>` directive with exactly one
\* more positional argument, with the conditions of that line in order; lines
\* that do not start with ##, a single # included, add nothing; a ## line
\* without a positional argument, or an `on` with other than one argument,
\* makes parseMeta fail with an error that carries the number of the line,
\* and no Meta.
C27_ParseMeta ==
    parse.called = "parseMeta" =>
       /\ parse.res.returned
       /\ IF ErrorLines(parse.input) = {}
          THEN /\ parse.res.err = "none"
               /\ parse.res.Events = EventsOf(parse.input)
          ELSE /\ parse.res.err # "none"
               /\ parse.res.line \in ErrorLines(parse.input)
               /\ \A i \in ErrorLines(parse.input) : parse.res.line <= i
               /\ parse.res.Events = <<>>

\* A script of a `# on` line and a `## on push` line with two conditions has
\* given one event.
C27_Witness ==
    /\ parse.called = "parseMeta" /\ Len(parse.input) = 2
    /\ parse.input[1].prefix = <<"#">>
    /\ parse.res.err = "none" /\ Len(parse.res.Events) = 1
    /\ Len(parse.res.Events[1].Conditions) = 2

\* C28: once the cgroups are bootstrapped the bender cgroup holds the
\* supervisor and no process of a job container, and the jobs cgroup never
\* holds the supervisor.
C28_Original ==
    procs.bootstrapped =>
       /\ procs.supervisor = BenderCgroup
       /\ \A j \in procs.containers : ~Under(ContainerCgroup(j), BenderCgroup)
       /\ ~Under(procs.supervisor, JobsCgroup)

\* The deferred discard of job j found jobs/<j>/cache and deleted it.
Discarded(j) == Has(j, "discard")

\* C29 as claimed: the deferred discard deletes the per-run snapshot only in
\* executions in which the commit step did not run; where the commit ran the
\* discard deletes nothing.
C29_Original == \A j \in Jobs : Has(j, "commit") => ~Discarded(j)

\* C29: the deferred discard deletes the per-run snapshot only in executions
\* in which the snapshot was provisioned and the commit step either did not
\* run or ran and failed to rename it; where the rename of the commit
\* succeeded the discard finds no snapshot and deletes nothing.
C29_DiscardUnlessCommitted ==
    \A j \in Jobs :
       /\ Discarded(j) => (Has(j, "provision") /\ ~RenameOk(j))
       /\ (RenameOk(j) /\ run[j].pc = "done") => ~Discarded(j)

\* The commit of a job ran, its rename failed, and the discard has deleted the
\* snapshot the commit left behind.
C29_Witness ==
    \E j \in Jobs :
       /\ Has(j, "commit") /\ ~RenameOk(j) /\ Discarded(j)
       /\ ~Exists(jobCache[j]) /\ run[j].pc = "done"

\* The step is the deletion of a GC tick.
GCDeletes == gc.path # "" /\ gc'.path = ""

\* The committed subvolumes a step removes or replaces.
Removed == {t \in Tags : Exists(cache[t]) /\ cache'[t] # cache[t]}

\* t has the smallest modification time among the entries present.
Smallest(t) == \A u \in present : cache[t].mtime <= cache[u].mtime

\* C30 as claimed: a GC tick that deletes removes exactly one committed
\* subvolume, the entry under cache/ with the smallest modification time among
\* the entries present, and nothing under jobs/.
C30_Original ==
    [][GCDeletes /\ cache' # cache =>
          /\ \E t \in Tags : Removed = {t} /\ ~Exists(cache'[t]) /\ Smallest(t)
          /\ jobCache' = jobCache /\ jobFiles' = jobFiles]_vars

\* C31 as claimed: a GC tick deletes a subvolume only when the available
\* space it measured, in MB, is strictly below min_free_space_mb; at or above
\* the threshold the tick deletes nothing.
C31_Original ==
    [][GCDeletes /\ cache' # cache => gc.free < MinFreeSpaceMB]_vars

\* C32: expiry or cancellation of the context of a webhook fails only that
\* webhook: every job it has spawned was started with context.Background(),
\* which is not derived from the webhook's context and is never done, and a
\* job once spawned stays spawned whatever handleWebhook returns.
C32_JobsOutliveWebhook ==
    /\ [](\A i \in 1..Len(spawnedJobs) :
             spawnedJobs[i].ctx # WebhookContext /\ ~Done(spawnedJobs[i].ctx))
    /\ [][/\ Len(spawnedJobs') >= Len(spawnedJobs)
          /\ SubSeq(spawnedJobs', 1, Len(spawnedJobs)) = spawnedJobs]_vars

\* The context expired after the jobs of a first event were spawned and the
\* webhook failed on a later event: its context is done, the jobs' is not.
C32_Witness ==
    /\ hook.expired /\ hook.pc = "done" /\ hook.err = "error"
    /\ hook.ev > 1 /\ repoDir.outcome = "ok"
    /\ \A n \in 1..Len(repoDir.files) : repoDir.files[n].fetch
    /\ spawnedJobs # <<>>
    /\ Done(WebhookContext)

\* The `bender <command>` lines of the comment that handleCommands has gone
\* through so far.
CommandLines == {i \in 1..(hook.line - 1) : delivery.body[i].bender}

\* The members of a set of line numbers in increasing order.
Ascending(S) ==
    [n \in 1..Cardinality(S) |->
        CHOOSE i \in S : Cardinality({k \in S : k < i}) = n - 1]

\* The errors kept so far are those of the lines S, one each, in line order,
\* and every other command line has emitted its event.
ErrorsOf(S) ==
    /\ Cardinality(S) = Len(hook.errors)
    /\ \A i \in CommandLines :
          handleCommandError(delivery.body[i], delivery) # "" => i \in S
    /\ \A n \in 1..Len(hook.errors) :
          LET l == delivery.body[Ascending(S)[n]] IN
          /\ hook.errors[n].command = l.command
          /\ hook.errors[n].error
                \in {handleCommandError(l, delivery), "api error"} \ {""}
    /\ Len(hook.events) = Cardinality(CommandLines \ S)

\* handleCommands has returned.
CommandsReturned == hook.pc # "commands" /\ hook.line > Len(delivery.body)

\* C33: for one issue_comment webhook the errors of the failing command lines
\* are accumulated in line order and posted as exactly one reply comment, no
\* reply is posted when no command failed, and a failing line does not keep
\* later command lines from being handled and emitting their events.
C33_OneAggregatedReply ==
    delivery.type = "issue_comment" =>
       /\ \E S \in SUBSET CommandLines : ErrorsOf(S)
       /\ replies = IF CommandsReturned /\ hook.errors # <<>>
                    THEN <<hook.errors>> ELSE <<>>

\* A comment whose first command failed and whose second, a `run`, emitted its
\* event: one reply with the one error has been posted.
C33_Witness ==
    /\ delivery.type = "issue_comment" /\ CommandsReturned
    /\ Len(delivery.body) = 2 /\ CommandLines = {1, 2}
    /\ handleCommandError(delivery.body[1], delivery) # ""
    /\ Len(hook.errors) = 1 /\ Len(hook.events) = 1
    /\ replies = <<hook.errors>>

\* Job j is past postComment and has not yet returned from runJobInner.
AfterPostComment(j) == At(j, "return")

\* C34 as claimed: a comment is posted for a job exactly when its event is a
\* pull-request event and home/comment.md is, after the commit, a regular file
\* that is neither a symbolic link nor a directory.
C34_Original ==
    \A j \in Jobs :
       AfterPostComment(j) =>
          (Has(j, "comment") <=>
              (job[j].PullRequest /\ jobFiles[j].comment = "file"))

\* C34: a comment is posted for a job exactly when its event is a
\* pull-request event and home/comment.md is, after the commit, a regular file
\* (no symbolic link, no directory) that could be read; for a push event and
\* for a missing file, a symbolic link, a directory or an unreadable file
\* nothing is posted, and postComment leaves the error of the run as it was.
C34_CommentPosted ==
    \A j \in Jobs :
       /\ Has(j, "comment") => (Has(j, "commit") /\ job[j].PullRequest)
       /\ AfterPostComment(j) =>
             /\ Has(j, "comment") <=>
                   /\ job[j].PullRequest /\ jobFiles[j].comment = "file"
                   /\ ~Has(j, "comment:unreadable")
             /\ Has(j, "comment:unreadable") =>
                   (job[j].PullRequest /\ jobFiles[j].comment = "file")
             /\ Has(j, "comment") => First(j, "commit") < First(j, "comment")
             /\ run[j].err = "none"

\* A pull-request job whose payload left a regular comment.md has just posted
\* it.
C34_Witness ==
    \E j \in Jobs :
       /\ AfterPostComment(j) /\ job[j].PullRequest
       /\ jobFiles[j].comment = "file" /\ Has(j, "comment")
       /\ trace[j][Len(trace[j])] = "comment"

\* C35 as claimed: parseDirective terminates on every input string, the texts
\* whose next character is `!`, `~`, `=`, `;`, a backslash or the double quote
\* of an unterminated string included.
C35_Original == parse.called = "parseDirective" => parse.res.returned

\* C36 as claimed: a log stream opened while its job was running has, when it
\* closes at an end-of-file, delivered everything that was in logs/<job> when
\* the job left the registry, the last line the job wrote included, under
\* every interleaving of the read, the registry check and the job's last write
\* and unregistration.
C36_Original ==
    (request.end = "eof" /\ request.padded) =>
       /\ request.pos = Len(LogFile(request.jobID).lines)
       /\ request.body = [i \in 1..request.pos |->
                            EscapeString(LogFile(request.jobID).lines[i])]

\* C37 as claimed: the base subvolume a job's existence check selected still
\* exists when the job snapshots it, under every interleaving with another
\* job's commit to the same tag and with GC ticks, so that provisioning never
\* fails because of them.
C37_Original ==
    \A j \in Jobs :
       (At(j, "provision") /\ run[j].cacheBaseName # "") =>
          Exists(cache[run[j].cacheBaseName])

\* The final status posts job j has attempted.
FinalStatusPosts(j) == SelectSeq(trace[j], LAMBDA c : c \in FinalPosts)

\* C38: with every call returning, a job whose pending status post was
\* attempted goes on to attempt its final status post, on every path through
\* the executor, inner errors and recovered panics included, and it attempts
\* exactly one; a job ends without any status post only when it failed before
\* the pending post, at the creation of its log file or of its API client.
C38_FinalStatusPosted ==
    /\ \A j \in Jobs :
          Has(j, "status:pending") ~> (Len(FinalStatusPosts(j)) = 1 /\ Returned(j))
    /\ [](\A j \in Jobs :
            /\ Len(FinalStatusPosts(j)) <= 1
            /\ FinalStatusPosts(j) # <<>> => Has(j, "status:pending")
            /\ (Returned(j) /\ StatusPosts(j) = <<>>) =>
                  /\ trace[j] = <<"unregister">>
                  /\ run[j].posts = <<>> /\ run[j].token = NoToken)

\* A job whose inner run panicked has posted pending and then failure, and
\* has returned.
C38_Witness ==
    \E j \in Jobs :
       /\ Returned(j) /\ run[j].err = "panic"
       /\ StatusPosts(j) = <<"status:pending", "status:failure">>

\* The calls of runJobInner's deferred functions, as they appear in a trace.
ReleaseCalls ==
    {"taskKill", "taskDelete", "containerDelete", "discard",
     "rmJobDir", "rmJobDir:failed"}

Releases(j) == SelectSeq(trace[j], LAMBDA c : c \in ReleaseCalls)

\* The release sequences of a run whose task was created: the discard entry
\* is there when jobs/<job>/cache still existed at that point.
ReleaseOrders ==
    { <<"taskKill", "taskDelete", "containerDelete">> \o d \o <<r>> :
        d \in {<<>>, <<"discard">>}, r \in {"rmJobDir", "rmJobDir:failed"} }

IsPrefix(s, t) == Len(s) <= Len(t) /\ SubSeq(t, 1, Len(s)) = s

TaskCreated(j) == run[j].task # "none"

\* C39: on every exit path of runJobInner after the task was created the
\* deferred releases run in the order task kill, task delete, container
\* delete, per-run cache discard, job directory removal, and all of them have
\* run before the final status post and before the job leaves the registry.
C39_ReleaseOrder ==
    \A j \in Jobs :
      TaskCreated(j) =>
        /\ \E o \in ReleaseOrders : IsPrefix(Releases(j), o)
        /\ \A k \in 1..Len(trace[j]) :
             trace[j][k] \in FinalPosts \cup {"unregister"} =>
               /\ SelectSeq(SubSeq(trace[j], 1, k - 1),
                            LAMBDA c : c \in ReleaseCalls) \in ReleaseOrders
               /\ Releases(j) \in ReleaseOrders
        /\ (~Has(j, "discard") /\ (Has(j, "rmJobDir") \/ Has(j, "rmJobDir:failed")))
             => RenameOk(j)

\* A run that failed after its task was created has released everything,
\* the per-run cache included, posted its final status and left the registry.
C39_Witness ==
    \E j \in Jobs :
      /\ TaskCreated(j)
      /\ Returned(j)
      /\ Has(j, "status:failure")
      /\ Has(j, "unregister")
      /\ Releases(j) =
           <<"taskKill", "taskDelete", "containerDelete", "discard", "rmJobDir">>

\* The jobs handleEvent has collected for the event at hand once the first n
\* entries of .github/ci were examined without a failing fetch.
Collected[n \in 0..MaxFiles + 1] ==
    IF n = 0 THEN <<>>
    ELSE IF n <= Len(repoDir.files)
            /\ ShouldSpawn(repoDir.files[n], hook.events[hook.ev])
         THEN Append(Collected[n - 1], NewJob(repoDir.files[n]))
         ELSE Collected[n - 1]

\* The spawned jobs of event k.
JobsOfEvent(k) == {i \in 1..Len(spawnedJobs) : spawnedJobs[i].event = k}

\* C40: jobs of an event are started only after every entry of .github/ci was
\* fetched and examined, all of them in that one step; when a fetch or decode
\* fails handleEvent returns an error and no job of that event has been
\* spawned, files that had matched before included; a file whose metadata
\* does not parse is skipped and the other files are collected as without it.
C40_AllOrNothing ==
    /\ [][spawnedJobs' # spawnedJobs =>
            /\ hook.pc = "files"
            /\ hook.file > Len(repoDir.files)
            /\ spawnedJobs' = spawnedJobs \o Collected[Len(repoDir.files)]]_vars
    /\ []((hook.pc = "done" /\ hook.err = "error") => JobsOfEvent(hook.ev) = {})
    /\ [](hook.pc = "files" =>
            /\ JobsOfEvent(hook.ev) = {}
            /\ hook.jobs = Collected[hook.file - 1])

\* The first file matched the event, fetching the second one failed:
\* handleEvent has returned the error and the event has no job.
C40_Witness ==
    /\ hook.pc = "done" /\ hook.err = "error" /\ ~hook.expired
    /\ hook.events # <<>>
    /\ Len(repoDir.files) = 2
    /\ ShouldSpawn(repoDir.files[1], hook.events[hook.ev])
    /\ repoDir.files[2].Type = "file" /\ ~repoDir.files[2].fetch
    /\ hook.jobs = <<NewJob(repoDir.files[1])>>
    /\ JobsOfEvent(hook.ev) = {}

====
